---- MODULE Spec2Model ----
(***************************************************************************)
(* Verification model of the TaaS turtle orchestrator (denecity/TaaS).     *)
(*                                                                         *)
(* Modelled here: the WebSocket gateway (backend/server.py), the turtle    *)
(* object with its inbox loop, session lock and request protocol          *)
(* (backend/turtle.py), the routine wrapper (routines/routine.py) and the  *)
(* routine scheduler with its connect / disconnect callbacks (main.py).    *)
(*                                                                         *)
(* All of this code runs on one asyncio event loop.  A coroutine runs      *)
(* without interruption from one suspension point to the next, so the      *)
(* model carries the loop's "currently running task" in the variable cur:  *)
(* a step of the body of a task needs cur = that task, and every other     *)
(* step (a REST handler, an inbox iteration, a resumption) needs cur = 0.  *)
(* The loop's ready queue is first-in first-out, so tasks take their       *)
(* first step in the order of their creation, and asyncio.Lock wakes its   *)
(* waiters in the order of their arrival.                                  *)
(*                                                                         *)
(* One turtle id is modelled; Conns are the successive WebSocket           *)
(* connections (Turtle objects) that present this id.                      *)
(***************************************************************************)
EXTENDS Integers, Sequences, FiniteSets, TLC

\* ------------------------------------------------------------------ bounds
MaxConns == 1      \* connections of the turtle id made in one behaviour
MaxSockets == 2    \* the same, where a turtle id reconnects
MaxStarts == 1     \* accepted POST /execute calls where a turtle id reconnects
MaxRuns  == 2      \* accepted POST /execute calls (routine tasks)
MaxReq   == 2      \* request ids allocated by _send
MaxCoord  == 1     \* largest coordinate of an initial stored position
MaxFuel   == 2     \* largest initial stored fuel level
MaxWrites == 2     \* committed writes to the turtles table in one behaviour

\* Each accepted connection starts _detect_real_state twice: once from
\* Server._ws_handler -> initialize_state, once from Turtle.on_connect.
DetectPerConn == 2

Conns    == 1..MaxSockets
Runs     == 1..MaxRuns
ReqIds   == 1..MaxReq
Tasks    == 1..(MaxRuns + DetectPerConn * MaxSockets)
Detects  == Tasks \ Runs
DetectTask(c, k) == MaxRuns + DetectPerConn * (c - 1) + k
DetectsOf(c)     == {DetectTask(c, k) : k \in 1..DetectPerConn}

\* The (routine, config) bodies of POST /execute.
Requests == {[routine |-> "A", config |-> "cfg1"], [routine |-> "B", config |-> "cfg2"]}

\* The keys of routine_registry.
routine_registry == {"A", "B"}

\* Every body tried: those of Requests and one that names no routine of the
\* registry.
Bodies == Requests \cup {[routine |-> "unknown", config |-> "cfg1"]}

\* The first frame of a connection: recv is FALSE when none arrives within
\* the 10 s of wait_for, json is what json.loads makes of it ("invalid" when
\* it raises), type is msg.get("type") and computer_id the Python type of
\* msg.get("computer_id").
Hellos ==
  {[recv |-> FALSE, json |-> "none", type |-> "none", computer_id |-> "NoneType"],
   [recv |-> TRUE, json |-> "invalid", type |-> "none", computer_id |-> "NoneType"],
   [recv |-> TRUE, json |-> "object", type |-> "helo", computer_id |-> "NoneType"],
   [recv |-> TRUE, json |-> "object", type |-> "hello", computer_id |-> "str"],
   [recv |-> TRUE, json |-> "object", type |-> "hello", computer_id |-> "bool"],
   [recv |-> TRUE, json |-> "object", type |-> "hello", computer_id |-> "int"]}

\* isinstance(v, int) by the Python type of v: bool is a subclass of int.
isinstance_int(type) == type \in {"int", "bool"}

\* The hello passes both checks of _ws_handler.
hello_ok(h) ==
  /\ h.recv
  /\ h.json = "object"
  /\ h.type = "hello"
  /\ isinstance_int(h.computer_id)

NoAssign == [routine |-> "none", status |-> "none", config |-> "none"]

NoResp == [op |-> "none", val |-> 0]

\* SQL NULL / Python None; a value v that is present is <<v>>, a
\* coordinate triple that is present is <<x, y, z>>.
Null == <<>>

\* Row of a turtle that has no column set.
NoRow == [fuel_level |-> Null, inventory |-> Null, x |-> Null, y |-> Null, z |-> Null,
          heading |-> Null, label |-> Null]

\* The keyword arguments of db_state.set_state, all defaulting to None.
NoPatch == [fuel_level |-> Null, inventory |-> Null, coords |-> Null, heading |-> Null,
            connection_status |-> Null, label |-> Null]

NoCall == [name |-> "none", ok |-> FALSE, raised |-> FALSE, patch |-> NoPatch]

VARIABLES
  \* --- Server / Turtle (one entry per connection) ---
  sock,               \* "none" | "open" | "closed" : the websocket
  handler,            \* Server._ws_handler: "none" | "waiting" | "cleanup" | "done"
  alive,              \* Turtle._alive
  inbox,              \* Turtle._inbox_task: "none" | "running" | "done"
  pending,            \* Turtle._pending (set of request ids)
  locked,             \* Turtle._session_lock is held
  clients,            \* Server._clients[id]: a connection, or 0
  connection_status,  \* db_state row: "none" | "connected" | "disconnected"
  \* --- requests ---
  fut,                \* the future of a request id: "none" | "pending" | "result" |
                      \* "exception" | "cancelled"; once _send has dropped it:
                      \* "timeout" (it ended at wait_for's deadline) | "late"
                      \* (a reply came after that deadline) | "gone"
  wire,               \* the connection a request's command frame was written to (0: none)
  \* --- tasks (routine runners and state detection) ---
  pc,                 \* "none" | "created" | "waitlock" | "body" | "await" | "done"
  tconn,              \* the Turtle a task is bound to (0: none)
  cancelReq,          \* Task.cancel() has been requested and not yet delivered
  req,                \* request id of the task's current or last _send (0: none)
  result,             \* what the last _send returned to the running task
  cur,                \* the task the event loop is running (0: none)
  \* --- scheduler (main.py globals) ---
  running_tasks,      \* running_tasks[id]: a run, or 0
  assignments,        \* assignments[id], or NoAssign
  published,          \* per run: the routine_* events handed to publish, in order
  \* --- history ---
  abortTrue,          \* runs for which POST /abort answered {aborted: true}
  atClose,            \* runs that awaited a reply when their socket closed
  superseded,         \* connections that were registered, with their socket
                      \* open, when a newer connection of the id registered
  garbage,            \* the connection whose inbox skipped an undecodable frame in
                      \* the step just taken (0: the step was something else)
  resp                \* what the step just taken handed to the outside or took from
                      \* it: the id of the reply frame the inbox dispatched, the
                      \* close code of a refused handshake, the status of a refused
                      \* REST call (NoResp: nothing of the kind)

VARIABLES
  \* --- db_state: the row of the turtle id in table turtles ---
  turtles,            \* the columns fuel_level, inventory, x, y, z, heading, label;
                      \* every column is Null or <<value>>.  The row exists iff
                      \* connection_status (above) is not "none"
  writes,             \* number of committed writes to the row
  notifyQ,            \* on_database_change calls scheduled and not yet run; each
                      \* entry is the number of the write that scheduled it
  state_updated,      \* the state_updated events handed to publish, in order
  call                \* the store or session call made by the step just taken

VARIABLES
  \* --- one call of a subroutine or session method, with its locals ---
  prim,               \* one session primitive: what _send returned and what the call gave
  bus,                \* main.py event bus: event_subscribers, the publish tasks and what each subscriber got
  mtc,                \* move_to_coordinate: its locals and its position in the code
  dump,               \* dump_to_left_chest: its caller, its locals and what it has done
  calc,               \* smart_mine_full: the chute anchors and the chute loop
  vein,               \* mine_ore_vein: its locals and the blocks around the turtle
  dig,                \* dig_to_coordinate: its locals
  inv,                \* get_inventory_details: the reply and the normalized dict
  app,                \* app.py: its assignments, running_tasks and routine tasks
  det                 \* _detect_real_state: its locals, and where the turtle
                      \* really stands and faces

vars == <<sock, handler, alive, inbox, pending, locked, clients, connection_status,
          fut, wire, pc, tconn, cancelReq, req, result, cur,
          running_tasks, assignments, published, abortTrue, atClose, superseded,
          garbage, resp,
          turtles, writes, notifyQ, state_updated, call, vein, dig, inv, app, det, prim, bus, mtc, dump, calc>>

\* Everything of the gateway and the scheduler except the persisted
\* connection_status and resp.
gatewayVars == <<sock, handler, alive, inbox, pending, locked, clients,
                 fut, wire, pc, tconn, cancelReq, req, result, cur,
                 running_tasks, assignments, published, abortTrue, atClose, superseded,
                 garbage>>
storeVars == <<turtles, writes, notifyQ, state_updated, call>>
subVars == <<vein, dig, inv, app, det, prim, bus, mtc, dump, calc>>

connVars  == <<sock, handler, alive, inbox, clients, connection_status>>
reqVars   == <<pending, fut, wire>>
schedVars == <<running_tasks, assignments>>
histVars  == <<abortTrue, atClose, superseded>>

\* The state of the gateway and the scheduler, without garbage and resp.
liveVars == <<connVars, reqVars, locked, pc, tconn, cancelReq, req, result, cur,
              schedVars, published, histVars>>

TypeOK ==
  /\ sock \in [Conns -> {"none", "open", "closed"}]
  /\ handler \in [Conns -> {"none", "waiting", "cleanup", "done"}]
  /\ alive \in [Conns -> BOOLEAN]
  /\ inbox \in [Conns -> {"none", "running", "done"}]
  /\ pending \in [Conns -> SUBSET ReqIds]
  /\ locked \in [Conns -> BOOLEAN]
  /\ clients \in Conns \cup {0}
  /\ connection_status \in {"none", "connected", "disconnected"}
  /\ fut \in [ReqIds -> {"none", "pending", "result", "exception", "cancelled",
                         "timeout", "late", "gone"}]
  /\ wire \in [ReqIds -> Conns \cup {0}]
  /\ pc \in [Tasks -> {"none", "created", "waitlock", "body", "await", "done"}]
  /\ tconn \in [Tasks -> Conns \cup {0}]
  /\ cancelReq \in [Tasks -> BOOLEAN]
  /\ req \in [Tasks -> ReqIds \cup {0}]
  /\ result \in [Tasks -> {"none", "reply", "timeout", "disconnected", "dead", "senderr"}]
  /\ cur \in Tasks \cup {0}
  /\ running_tasks \in Runs \cup {0}
  /\ assignments \in [routine : {"none", "A", "B"},
                      status : {"none", "running", "finished", "aborted", "failed",
                                "disconnected"},
                      config : {"none", "cfg1", "cfg2"}]
  /\ published \in [Runs -> Seq({"started", "finished", "aborted", "failed"})]
  /\ abortTrue \subseteq Runs
  /\ atClose \subseteq Runs
  /\ superseded \subseteq Conns
  /\ garbage \in Conns \cup {0}
  /\ resp \in [op : {"none", "frame", "close", "http"}, val : Nat]

GatewayIdle ==
  /\ sock = [c \in Conns |-> "none"]
  /\ handler = [c \in Conns |-> "none"]
  /\ alive = [c \in Conns |-> FALSE]
  /\ inbox = [c \in Conns |-> "none"]
  /\ pending = [c \in Conns |-> {}]
  /\ locked = [c \in Conns |-> FALSE]
  /\ clients = 0
  /\ fut = [q \in ReqIds |-> "none"]
  /\ wire = [q \in ReqIds |-> 0]
  /\ pc = [t \in Tasks |-> "none"]
  /\ tconn = [t \in Tasks |-> 0]
  /\ cancelReq = [t \in Tasks |-> FALSE]
  /\ req = [t \in Tasks |-> 0]
  /\ result = [t \in Tasks |-> "none"]
  /\ cur = 0
  /\ running_tasks = 0
  /\ assignments = NoAssign
  /\ published = [r \in Runs |-> <<>>]
  /\ abortTrue = {}
  /\ atClose = {}
  /\ superseded = {}
  /\ garbage = 0

\* No subroutine has been called.
NotCalled == [pc |-> "idle"]

SubIdle ==
  /\ vein = NotCalled
  /\ dig = NotCalled
  /\ inv = NotCalled
  /\ app = NotCalled
  /\ det = NotCalled
  /\ prim = NotCalled
  /\ bus = NotCalled
  /\ mtc = NotCalled
  /\ dump = NotCalled
  /\ calc = NotCalled

\* No call has been made on the store.
StoreIdle ==
  /\ writes = 0
  /\ notifyQ = <<>>
  /\ state_updated = <<>>
  /\ call = NoCall

Init ==
  /\ GatewayIdle
  /\ connection_status = "none"
  /\ resp = NoResp
  /\ turtles = NoRow
  /\ StoreIdle
  /\ SubIdle

\* ------------------------------------------------------------- helpers
IsRun(t)  == t \in Runs
FreeConns == {c \in Conns : sock[c] = "none"}
FreeRuns  == {r \in Runs : pc[r] = "none"}
FreeReqs  == {q \in ReqIds : fut[q] = "none"}
Lowest(S) == CHOOSE x \in S : \A y \in S : x <= y

\* The number of POST /execute calls accepted so far.
Started == Cardinality(Runs \ FreeRuns)

\* The number of connections accepted so far.
Connected == Cardinality(Conns \ FreeConns)

\* The tasks suspended in wait_for on the future of request q.
WaitersOf(q) == {t \in Tasks : pc[t] = "await" /\ req[t] = q}

\* Task.done()
Done(t) == pc[t] = "done"

\* A task is inside `async with turtle.session()` from the return of
\* __aenter__ (Session._entered = True) to __aexit__.
InSession(t) == pc[t] \in {"body", "await"}
Holders(c)   == {t \in Tasks : tconn[t] = c /\ InSession(t)}

\* Arrival order at the lock of one turtle: the detection tasks are
\* created by the connection handler before any routine can be started on
\* it, and tasks take their first step in creation order.
Before(a, b) == \/ a \in Detects /\ b \in Runs
                \/ (a \in Detects <=> b \in Detects) /\ a < b

\* The waiters of asyncio.Lock whose future is not cancelled.
LockWaiters(c) == {t \in Tasks : tconn[t] = c /\ pc[t] = "waitlock" /\ ~cancelReq[t]}

\* Task.cancel() on task t.  A task that is done ignores it.  For a task
\* suspended in wait_for whose future is already completed, the request
\* is either lost (asyncio before 3.12: wait_for returns the result and
\* drops the CancelledError) or stays pending (3.12 and later): lost picks.
\* For a future not yet completed, 3.12 cancels the future at once, older
\* versions only when the task wakes up.
CancelTask(t, lost) ==
  IF Done(t)
  THEN UNCHANGED <<cancelReq, fut>>
  ELSE IF pc[t] = "await" /\ fut[req[t]] \in {"result", "exception"}
       THEN /\ cancelReq' = [cancelReq EXCEPT ![t] = ~lost]
            /\ fut' = fut
       ELSE /\ cancelReq' = [cancelReq EXCEPT ![t] = TRUE]
            /\ fut' = IF pc[t] = "await" /\ ~lost
                      THEN [fut EXCEPT ![req[t]] = "cancelled"]
                      ELSE fut

\* ------------------------------------------------- Server._ws_handler
\* The first frame h of a connection fails a check of _ws_handler: the
\* websocket is closed with code 1002 and the handler returns before a
\* Turtle is built.
HelloReject(h) ==
  /\ cur = 0
  /\ ~hello_ok(h)
  /\ resp' = [op |-> "close", val |-> 1002]
  /\ UNCHANGED liveVars

\* A connection presents a hello h that passes: the handler builds the Turtle,
\* starts its inbox, calls initialize_state (first detection task),
\* registers the turtle, runs on_turtle_connect (connection_status,
\* second detection task) and then waits for the socket to close.  The
\* two detection tasks are next in the ready queue: the first finds the
\* new lock free and runs on, the second queues behind it.
Connect(h) ==
  /\ cur = 0
  /\ hello_ok(h)
  /\ FreeConns # {}
  /\ LET c == Lowest(FreeConns) IN
     /\ sock' = [sock EXCEPT ![c] = "open"]
     /\ alive' = [alive EXCEPT ![c] = TRUE]
     /\ inbox' = [inbox EXCEPT ![c] = "running"]
     /\ pc' = [t \in Tasks |->
                 IF t = DetectTask(c, 1) THEN "body"
                 ELSE IF t \in DetectsOf(c) THEN "waitlock" ELSE pc[t]]
     /\ tconn' = [t \in Tasks |-> IF t \in DetectsOf(c) THEN c ELSE tconn[t]]
     /\ locked' = [locked EXCEPT ![c] = TRUE]
     /\ cur' = DetectTask(c, 1)
     /\ clients' = c
     /\ connection_status' = "connected"
     /\ handler' = [handler EXCEPT ![c] = "waiting"]
  /\ superseded' = IF clients # 0 /\ sock[clients] = "open"
                   THEN superseded \cup {clients} ELSE superseded
  /\ UNCHANGED <<reqVars, cancelReq, req, result, schedVars, published,
                 abortTrue, atClose>>

\* The websocket of connection c closes (peer drop or keepalive failure).
SocketClose(c) ==
  /\ cur = 0
  /\ sock[c] = "open"
  /\ sock' = [sock EXCEPT ![c] = "closed"]
  /\ atClose' = atClose \cup {r \in Runs : tconn[r] = c /\ pc[r] = "await"}
  /\ UNCHANGED <<handler, alive, inbox, clients, connection_status, reqVars, locked,
                 pc, tconn, cancelReq, req, result, cur, schedVars, published,
                 abortTrue, superseded>>

\* _ws_handler's finally block up to the first suspension of
\* on_turtle_disconnect: the id is popped from _clients, so get_turtle
\* finds nothing and the row is set to "disconnected"; the publish calls
\* that follow may suspend.
HandlerClosed(c) ==
  /\ cur = 0
  /\ sock[c] = "closed"
  /\ handler[c] = "waiting"
  /\ clients' = 0
  /\ connection_status' = "disconnected"
  /\ handler' = [handler EXCEPT ![c] = "cleanup"]
  /\ UNCHANGED <<sock, alive, inbox, reqVars, locked,
                 pc, tconn, cancelReq, req, result, cur, schedVars, published, histVars>>

\* on_turtle_disconnect after its publish calls: cancel the routine task
\* recorded for the id and mark the assignment "disconnected".
HandlerCleanup(c, lost) ==
  /\ cur = 0
  /\ handler[c] = "cleanup"
  /\ IF running_tasks # 0 /\ ~Done(running_tasks)
     THEN CancelTask(running_tasks, lost)
     ELSE UNCHANGED <<cancelReq, fut>>
  /\ assignments' = IF assignments # NoAssign
                    THEN [assignments EXCEPT !.status = "disconnected"]
                    ELSE assignments
  /\ handler' = [handler EXCEPT ![c] = "done"]
  /\ UNCHANGED <<sock, alive, inbox, clients, connection_status, pending, wire,
                 locked, pc, tconn, req, result, cur, running_tasks, published, histVars>>

\* ------------------------------------------------- Turtle._inbox_loop
\* Variant of the finally block without the loop over the pending futures.
InboxFinally_KeepFutures(c) ==
  /\ alive' = [alive EXCEPT ![c] = FALSE]
  /\ fut' = fut
  /\ cancelReq' = cancelReq
  /\ pending' = [pending EXCEPT ![c] = {}]
  /\ inbox' = [inbox EXCEPT ![c] = "done"]

\* The finally block: alive is cleared, every pending future that is not
\* done gets the "turtle disconnected" exception, the map is cleared.
\* A cancellation requested for a waiter whose future was still pending
\* is lost with the older wait_for (see CancelTask).
InboxFinally(c) ==
  /\ alive' = [alive EXCEPT ![c] = FALSE]
  /\ fut' = [q \in ReqIds |->
               IF q \in pending[c] /\ fut[q] = "pending" THEN "exception" ELSE fut[q]]
  /\ cancelReq' = [t \in Tasks |->
               IF pc[t] = "await" /\ req[t] \in pending[c] /\ fut[req[t]] = "pending"
               THEN FALSE ELSE cancelReq[t]]
  /\ pending' = [pending EXCEPT ![c] = {}]
  /\ inbox' = [inbox EXCEPT ![c] = "done"]

\* The socket is closed: `async for` ends with ConnectionClosed.
InboxClosed(c) ==
  /\ cur = 0
  /\ inbox[c] = "running"
  /\ sock[c] = "closed"
  /\ InboxFinally(c)
  /\ UNCHANGED <<sock, handler, clients, connection_status, wire, locked,
                 pc, tconn, req, result, cur, schedVars, published, histVars>>

\* Variant of the dispatch that completes whichever request is pending,
\* without looking the frame's id up.
InboxReply_AnyPending(c, q) ==
  /\ cur = 0
  /\ inbox[c] = "running"
  /\ sock[c] = "open"
  /\ wire[q] = c
  /\ LET p == IF pending[c] # {} THEN Lowest(pending[c]) ELSE q IN
     /\ pending' = [pending EXCEPT ![c] = @ \ {p}]
     /\ IF p \in pending[c] /\ fut[p] = "pending"
        THEN /\ fut' = [fut EXCEPT ![p] = "result"]
             /\ cancelReq' = [t \in Tasks |-> IF t \in WaitersOf(p) THEN FALSE ELSE cancelReq[t]]
        ELSE /\ fut' = [fut EXCEPT ![q] = IF @ = "timeout" THEN "late" ELSE @]
             /\ cancelReq' = cancelReq
  /\ resp' = [op |-> "frame", val |-> q]
  /\ UNCHANGED <<connVars, wire, locked, pc, tconn, req, result, cur,
                 schedVars, published, histVars>>

\* A reply frame carrying request id q arrives on connection c: the
\* future registered under q is popped and, if not done, completed.  A
\* frame whose id is not registered is dropped ("late" only records that
\* this happened to a request that had timed out).
InboxReply(c, q) ==
  /\ cur = 0
  /\ inbox[c] = "running"
  /\ sock[c] = "open"
  /\ wire[q] = c
  /\ pending' = [pending EXCEPT ![c] = @ \ {q}]
  /\ IF q \in pending[c] /\ fut[q] = "pending"
     THEN /\ fut' = [fut EXCEPT ![q] = "result"]
          /\ cancelReq' = [t \in Tasks |-> IF t \in WaitersOf(q) THEN FALSE ELSE cancelReq[t]]
     ELSE /\ fut' = [fut EXCEPT ![q] = IF @ = "timeout" THEN "late" ELSE @]
          /\ cancelReq' = cancelReq
  /\ resp' = [op |-> "frame", val |-> q]
  /\ UNCHANGED <<connVars, wire, locked, pc, tconn, req, result, cur,
                 schedVars, published, histVars>>

\* Variant in which an undecodable frame leaves the loop through the
\* finally block.
InboxGarbage_Fatal(c) ==
  /\ cur = 0
  /\ inbox[c] = "running"
  /\ sock[c] = "open"
  /\ garbage' = c
  /\ InboxFinally(c)
  /\ UNCHANGED <<sock, handler, clients, connection_status, wire, locked,
                 pc, tconn, req, result, cur, schedVars, published, histVars>>

\* A frame that is not valid JSON: json.loads raises, the loop continues.
InboxGarbage(c) ==
  /\ cur = 0
  /\ inbox[c] = "running"
  /\ sock[c] = "open"
  /\ garbage' = c
  /\ UNCHANGED <<connVars, reqVars, locked, pc, tconn, cancelReq, req, result, cur,
                 schedVars, published, histVars>>

\* A frame that is valid JSON but not an object: msg.get raises
\* AttributeError, which leaves the loop through the finally block.
InboxNonObject(c) ==
  /\ cur = 0
  /\ inbox[c] = "running"
  /\ sock[c] = "open"
  /\ InboxFinally(c)
  /\ UNCHANGED <<sock, handler, clients, connection_status, wire, locked,
                 pc, tconn, req, result, cur, schedVars, published, histVars>>

\* ------------------------------------------------- main.py: scheduler
\* t = server.get_turtle(tid) is there and t.is_alive().
turtle_connected == clients # 0 /\ alive[clients]

\* Variant of the rejected POST /execute that cancels the previous task
\* before it validates the request.
execute_routine_not_found_Cancels(body) ==
  /\ cur = 0
  /\ body.routine \notin routine_registry \/ ~turtle_connected
  /\ IF running_tasks # 0 /\ ~Done(running_tasks)
     THEN CancelTask(running_tasks, TRUE)
     ELSE UNCHANGED <<cancelReq, fut>>
  /\ resp' = [op |-> "http", val |-> 404]
  /\ UNCHANGED <<connVars, pending, wire, locked, pc, tconn, req, result, cur,
                 schedVars, published, histVars>>

\* POST /turtles/{id}/execute, rejected: the routine is not in the registry,
\* or server.get_turtle(id) is missing or not alive.  HTTPException(404) is
\* raised before anything is touched.
execute_routine_not_found(body) ==
  /\ cur = 0
  /\ body.routine \notin routine_registry \/ ~turtle_connected
  /\ resp' = [op |-> "http", val |-> 404]
  /\ UNCHANGED liveVars

\* POST /turtles/{id}/execute, accepted: the routine exists and
\* server.get_turtle(id) is alive.  A previous task that is not done is
\* cancelled (not awaited), the assignment is replaced, and the _runner
\* task is created; its first step runs later.
execute_routine(body, lost) ==
  /\ cur = 0
  /\ body.routine \in routine_registry
  /\ clients # 0
  /\ alive[clients]
  /\ FreeRuns # {}
  /\ LET r == Lowest(FreeRuns) IN
     /\ IF running_tasks # 0 /\ ~Done(running_tasks)
        THEN CancelTask(running_tasks, lost)
        ELSE UNCHANGED <<cancelReq, fut>>
     /\ assignments' = [routine |-> body.routine, status |-> "running",
                        config |-> body.config]
     /\ pc' = [pc EXCEPT ![r] = "created"]
     /\ tconn' = [tconn EXCEPT ![r] = clients]
     /\ running_tasks' = r
  /\ UNCHANGED <<connVars, pending, wire, locked, req, result, cur,
                 published, histVars>>

\* POST /turtles/{id}/abort
abort_routine(lost) ==
  /\ cur = 0
  /\ IF running_tasks # 0 /\ ~Done(running_tasks)
     THEN /\ CancelTask(running_tasks, lost)
          /\ abortTrue' = abortTrue \cup {running_tasks}
     ELSE UNCHANGED <<cancelReq, fut, abortTrue>>
  /\ UNCHANGED <<connVars, pending, wire, locked, pc, tconn, req, result, cur,
                 schedVars, published, atClose, superseded>>

\* ------------------------------------------------- session tasks
\* Variant of __aenter__ that does not wait for the lock.
SessionEnter_NoWait(t) ==
  /\ locked' = [locked EXCEPT ![tconn[t]] = TRUE]
  /\ pc' = [pc EXCEPT ![t] = "body"]
  /\ cur' = t

\* Session.__aenter__ reached by the running task t: acquire() takes the
\* lock if it is free and nobody waits for it, otherwise the task suspends.
SessionEnter(t) ==
  IF ~locked[tconn[t]] /\ LockWaiters(tconn[t]) = {}
  THEN /\ locked' = [locked EXCEPT ![tconn[t]] = TRUE]
       /\ pc' = [pc EXCEPT ![t] = "body"]
       /\ cur' = t
  ELSE /\ locked' = locked
       /\ pc' = [pc EXCEPT ![t] = "waitlock"]
       /\ cur' = 0

\* Session.__aexit__: the lock is released (the task had entered).
SessionExit(t) == locked' = [locked EXCEPT ![tconn[t]] = FALSE]

\* The end of a routine task: _runner records the status in
\* assignments[id] and hands the terminal event to publish.  A detection
\* task ends silently.
RunnerExit(t, status) ==
  IF IsRun(t)
  THEN /\ assignments' = [assignments EXCEPT !.status = status]
       /\ published' = [published EXCEPT ![t] = Append(@, status)]
  ELSE UNCHANGED <<assignments, published>>

\* First step of _runner: routine_started is handed to publish and
\* RoutineWrapper.run enters the session.  Tasks start in creation order.
RunnerStart(t) ==
  /\ cur = 0
  /\ IsRun(t)
  /\ pc[t] = "created"
  /\ ~cancelReq[t]
  /\ \A r \in Runs : r < t => pc[r] # "created" \/ cancelReq[r]
  /\ published' = [published EXCEPT ![t] = Append(@, "started")]
  /\ SessionEnter(t)
  /\ UNCHANGED <<connVars, reqVars, tconn, cancelReq, req, result,
                 schedVars, histVars>>

\* A suspended acquire() returns: the lock was released and t is the
\* first waiter.
LockResume(t) ==
  /\ cur = 0
  /\ t \in LockWaiters(tconn[t])
  /\ \A u \in LockWaiters(tconn[t]) : u = t \/ Before(t, u)
  /\ ~locked[tconn[t]]
  /\ locked' = [locked EXCEPT ![tconn[t]] = TRUE]
  /\ pc' = [pc EXCEPT ![t] = "body"]
  /\ cur' = t
  /\ UNCHANGED <<connVars, reqVars, tconn, cancelReq, req, result,
                 schedVars, published, histVars>>

\* Variant of _send without the early return on a dead turtle: the
\* request is registered before the error is returned.
SendDead_Registers(t) ==
  /\ cur = t
  /\ pc[t] = "body"
  /\ ~alive[tconn[t]]
  /\ FreeReqs # {}
  /\ LET q == Lowest(FreeReqs) IN
     /\ pending' = [pending EXCEPT ![tconn[t]] = @ \cup {q}]
     /\ fut' = [fut EXCEPT ![q] = "pending"]
     /\ wire' = [wire EXCEPT ![q] = tconn[t]]
     /\ req' = [req EXCEPT ![t] = q]
  /\ result' = [result EXCEPT ![t] = "dead"]
  /\ UNCHANGED <<connVars, locked, pc, tconn, cancelReq, cur,
                 schedVars, published, histVars>>

\* Session._send on a turtle whose _alive flag is false.
SendDead(t) ==
  /\ cur = t
  /\ pc[t] = "body"
  /\ ~alive[tconn[t]]
  /\ result' = [result EXCEPT ![t] = "dead"]
  /\ req' = [req EXCEPT ![t] = 0]
  /\ UNCHANGED <<connVars, reqVars, locked, pc, tconn, cancelReq, cur,
                 schedVars, published, histVars>>

\* Session._send while _alive is still true but the socket is closed:
\* the future is registered, ws.send raises ConnectionClosed, the error
\* is returned and the finally block pops the id again.
SendClosed(t) ==
  /\ cur = t
  /\ pc[t] = "body"
  /\ alive[tconn[t]]
  /\ sock[tconn[t]] = "closed"
  /\ result' = [result EXCEPT ![t] = "senderr"]
  /\ req' = [req EXCEPT ![t] = 0]
  /\ UNCHANGED <<connVars, reqVars, locked, pc, tconn, cancelReq, cur,
                 schedVars, published, histVars>>

\* Session._send on a live turtle: a fresh request id, its future in
\* _pending, the frame on the socket, then the task suspends in wait_for.
SendFrame(t) ==
  /\ cur = t
  /\ pc[t] = "body"
  /\ alive[tconn[t]]
  /\ sock[tconn[t]] = "open"
  /\ FreeReqs # {}
  /\ LET q == Lowest(FreeReqs) IN
     /\ pending' = [pending EXCEPT ![tconn[t]] = @ \cup {q}]
     /\ fut' = [fut EXCEPT ![q] = "pending"]
     /\ wire' = [wire EXCEPT ![q] = tconn[t]]
     /\ req' = [req EXCEPT ![t] = q]
  /\ result' = [result EXCEPT ![t] = "none"]
  /\ pc' = [pc EXCEPT ![t] = "await"]
  /\ cur' = 0
  /\ UNCHANGED <<connVars, locked, tconn, cancelReq,
                 schedVars, published, histVars>>

\* wait_for returns the reply, or raises the exception the inbox set;
\* _send returns the frame or the error, its finally pops the id.
SendResume(t) ==
  /\ cur = 0
  /\ pc[t] = "await"
  /\ ~cancelReq[t]
  /\ fut[req[t]] \in {"result", "exception"}
  /\ result' = [result EXCEPT ![t] = IF fut[req[t]] = "result" THEN "reply"
                                      ELSE "disconnected"]
  /\ pending' = [pending EXCEPT ![tconn[t]] = @ \ {req[t]}]
  /\ fut' = [fut EXCEPT ![req[t]] = "gone"]
  /\ pc' = [pc EXCEPT ![t] = "body"]
  /\ cur' = t
  /\ UNCHANGED <<connVars, locked, wire, tconn, cancelReq, req,
                 schedVars, published, histVars>>

\* Variant of the deadline path without the pop of _send's finally block.
SendTimeout_NoPop(t) ==
  /\ cur = 0
  /\ pc[t] = "await"
  /\ ~cancelReq[t]
  /\ fut[req[t]] = "pending"
  /\ fut' = [fut EXCEPT ![req[t]] = "timeout"]
  /\ result' = [result EXCEPT ![t] = "timeout"]
  /\ pc' = [pc EXCEPT ![t] = "body"]
  /\ cur' = t
  /\ UNCHANGED <<connVars, locked, pending, wire, tconn, cancelReq, req,
                 schedVars, published, histVars>>

\* The 30 s deadline of wait_for passes before the future is completed:
\* wait_for cancels the future, _send returns the timeout error and its
\* finally pops the id.
SendTimeout(t) ==
  /\ cur = 0
  /\ pc[t] = "await"
  /\ ~cancelReq[t]
  /\ fut[req[t]] = "pending"
  /\ fut' = [fut EXCEPT ![req[t]] = "timeout"]
  /\ result' = [result EXCEPT ![t] = "timeout"]
  /\ pending' = [pending EXCEPT ![tconn[t]] = @ \ {req[t]}]
  /\ pc' = [pc EXCEPT ![t] = "body"]
  /\ cur' = t
  /\ UNCHANGED <<connVars, locked, wire, tconn, cancelReq, req,
                 schedVars, published, histVars>>

\* The routine function (or the detection body) returns: __aexit__
\* releases the lock, _runner records "finished".
TaskReturn(t) ==
  /\ cur = t
  /\ pc[t] = "body"
  /\ SessionExit(t)
  /\ RunnerExit(t, "finished")
  /\ pc' = [pc EXCEPT ![t] = "done"]
  /\ result' = [result EXCEPT ![t] = "none"]
  /\ req' = [req EXCEPT ![t] = 0]
  /\ cur' = 0
  /\ UNCHANGED <<connVars, reqVars, tconn, cancelReq, running_tasks, histVars>>

\* The routine function raises an exception: __aexit__ releases the
\* lock, RoutineWrapper.run re-raises, _runner records "failed".
TaskRaise(t) ==
  /\ cur = t
  /\ pc[t] = "body"
  /\ IsRun(t)
  /\ SessionExit(t)
  /\ RunnerExit(t, "failed")
  /\ pc' = [pc EXCEPT ![t] = "done"]
  /\ result' = [result EXCEPT ![t] = "none"]
  /\ req' = [req EXCEPT ![t] = 0]
  /\ cur' = 0
  /\ UNCHANGED <<connVars, reqVars, tconn, cancelReq, running_tasks, histVars>>

\* A requested cancellation reaches the task at its suspension point.
\*  - not yet started: the coroutine body never runs (the CancelledError
\*    is thrown into an unstarted coroutine), so nothing is recorded;
\*  - in acquire(): __aenter__ raises, the lock was never taken;
\*  - in wait_for: _send's finally pops the id, __aexit__ releases the
\*    lock.
\* In the last two cases _runner's CancelledError branch records
\* "aborted".
CancelDeliver(t) ==
  /\ cur = 0
  /\ cancelReq[t]
  /\ pc[t] \in {"created", "waitlock", "await"}
  /\ cancelReq' = [cancelReq EXCEPT ![t] = FALSE]
  /\ pc' = [pc EXCEPT ![t] = "done"]
  /\ req' = [req EXCEPT ![t] = 0]
  /\ IF pc[t] = "await"
     THEN /\ pending' = [pending EXCEPT ![tconn[t]] = @ \ {req[t]}]
          /\ fut' = [fut EXCEPT ![req[t]] = "gone"]
          /\ SessionExit(t)
     ELSE UNCHANGED <<pending, fut, locked>>
  /\ IF pc[t] = "created"
     THEN UNCHANGED <<assignments, published>>
     ELSE RunnerExit(t, "aborted")
  /\ UNCHANGED <<connVars, wire, tconn, result, cur, running_tasks, histVars>>

\* ------------------------------------------------- specification
\* garbage names a connection exactly after a step that skipped an
\* undecodable frame of it.
Quiet == garbage' = 0

\* resp is set by the steps that answer or consume something and reset by
\* every other step.
Silent == resp' = NoResp

\* A step of the gateway or the scheduler: the variables of the other
\* components do not move.
KeepOthers == UNCHANGED <<storeVars, subVars>>

Next ==
  \/ KeepOthers /\ Quiet /\ Silent /\ Connected < MaxConns /\ \E h \in Hellos : Connect(h)
  \/ KeepOthers /\ Quiet /\ Silent /\ \E c \in Conns : SocketClose(c)
  \/ KeepOthers /\ Quiet /\ Silent /\ \E c \in Conns : HandlerClosed(c)
  \/ KeepOthers /\ Quiet /\ Silent /\ \E c \in Conns, lost \in BOOLEAN : HandlerCleanup(c, lost)
  \/ KeepOthers /\ Quiet /\ Silent /\ \E c \in Conns : InboxClosed(c)
  \/ KeepOthers /\ Quiet /\ \E c \in Conns, q \in ReqIds : InboxReply(c, q)
  \/ KeepOthers /\ Quiet /\ Silent /\ \E c \in Conns : InboxNonObject(c)
  \/ KeepOthers /\ Quiet /\ Silent /\ \E body \in Bodies, lost \in BOOLEAN : execute_routine(body, lost)
  \/ KeepOthers /\ Quiet /\ Silent /\ \E lost \in BOOLEAN : abort_routine(lost)
  \/ KeepOthers /\ Quiet /\ Silent /\ \E t \in Tasks : RunnerStart(t)
  \/ KeepOthers /\ Quiet /\ Silent /\ \E t \in Tasks : LockResume(t)
  \/ KeepOthers /\ Quiet /\ Silent /\ \E t \in Tasks : SendDead(t)
  \/ KeepOthers /\ Quiet /\ Silent /\ \E t \in Tasks : SendClosed(t)
  \/ KeepOthers /\ Quiet /\ Silent /\ \E t \in Tasks : SendFrame(t)
  \/ KeepOthers /\ Quiet /\ Silent /\ \E t \in Tasks : SendResume(t)
  \/ KeepOthers /\ Quiet /\ Silent /\ \E t \in Tasks : SendTimeout(t)
  \/ KeepOthers /\ Quiet /\ Silent /\ \E t \in Tasks : TaskReturn(t)
  \/ KeepOthers /\ Quiet /\ Silent /\ \E t \in Tasks : TaskRaise(t)
  \/ KeepOthers /\ Quiet /\ Silent /\ \E t \in Tasks : CancelDeliver(t)
  \/ KeepOthers /\ Silent /\ \E c \in Conns : InboxGarbage(c)

Spec == Init /\ [][Next]_vars

\* The gateway with the requests it refuses: a refused handshake and a
\* refused POST /execute change nothing but resp.
NextOrRefused ==
  \/ Next
  \/ KeepOthers /\ Quiet /\ \E h \in Hellos : HelloReject(h)
  \/ KeepOthers /\ Quiet /\ \E body \in Bodies : execute_routine_not_found(body)

SpecRefused == Init /\ [][NextOrRefused]_vars


\* The gateway where the turtle id reconnects: up to MaxSockets connections
\* present the id, each may close, and routines are started, send commands,
\* get replies and end.
ReconnectNext ==
  \/ KeepOthers /\ Quiet /\ Silent /\ \E h \in Hellos : Connect(h)
  \/ KeepOthers /\ Quiet /\ Silent /\ \E c \in Conns : SocketClose(c)
  \/ KeepOthers /\ Quiet /\ Silent /\ \E c \in Conns : HandlerClosed(c)
  \/ KeepOthers /\ Quiet /\ Silent /\ \E c \in Conns, lost \in BOOLEAN : HandlerCleanup(c, lost)
  \/ KeepOthers /\ Quiet /\ Silent /\ \E c \in Conns : InboxClosed(c)
  \/ KeepOthers /\ Quiet /\ \E c \in Conns, q \in ReqIds : InboxReply(c, q)
  \/ KeepOthers /\ Quiet /\ Silent /\ Started < MaxStarts /\ \E body \in Bodies, lost \in BOOLEAN : execute_routine(body, lost)
  \/ KeepOthers /\ Quiet /\ Silent /\ \E t \in Tasks : RunnerStart(t)
  \/ KeepOthers /\ Quiet /\ Silent /\ \E t \in Tasks : LockResume(t)
  \/ KeepOthers /\ Quiet /\ Silent /\ \E t \in Tasks : SendDead(t)
  \/ KeepOthers /\ Quiet /\ Silent /\ \E t \in Tasks : SendClosed(t)
  \/ KeepOthers /\ Quiet /\ Silent /\ \E t \in Tasks : SendFrame(t)
  \/ KeepOthers /\ Quiet /\ Silent /\ \E t \in Tasks : SendResume(t)
  \/ KeepOthers /\ Quiet /\ Silent /\ \E t \in Tasks : TaskReturn(t)
  \/ KeepOthers /\ Quiet /\ Silent /\ \E t \in Tasks : CancelDeliver(t)

SpecReconnect == Init /\ [][ReconnectNext]_vars

\* ------------------------------------------------- db_state
\* An optional value over S.
Opt(S) == {Null} \cup {<<v>> : v \in S}

Max(a, b) == IF a >= b THEN a ELSE b

\* SQL COALESCE(?, column)
COALESCE(new, old) == IF new # Null THEN new ELSE old

\* SELECT turtle_id FROM turtles WHERE turtle_id=? finds the row.
Exists == connection_status # "none"

\* db_state.get_state: coords is None unless x, y and z are all set; a
\* missing row gives a dict without the keys heading and label.
get_state ==
  IF ~Exists
  THEN [fuel_level |-> Null, inventory |-> Null, coords |-> Null, heading |-> Null,
        label |-> Null, connection_status |-> "disconnected"]
  ELSE [fuel_level |-> turtles.fuel_level,
        inventory |-> turtles.inventory,
        coords |-> IF turtles.x # Null /\ turtles.y # Null /\ turtles.z # Null
                   THEN <<turtles.x[1], turtles.y[1], turtles.z[1]>>
                   ELSE Null,
        heading |-> turtles.heading,
        label |-> turtles.label,
        connection_status |-> connection_status]

\* Variant of _notify_change that counts the write and schedules nothing.
notify_change_Unscheduled ==
  /\ writes' = writes + 1
  /\ notifyQ' = notifyQ

\* db_state._notify_change after conn.commit(): the write is counted and
\* one on_database_change call is scheduled on the loop.
notify_change ==
  /\ writes' = writes + 1
  /\ notifyQ' = Append(notifyQ, writes + 1)

\* Variant of set_state whose UPDATE assigns the arguments without COALESCE.
set_state_Overwrite(p) ==
  LET x == IF p.coords # Null THEN <<p.coords[1]>> ELSE Null
      y == IF p.coords # Null THEN <<p.coords[2]>> ELSE Null
      z == IF p.coords # Null THEN <<p.coords[3]>> ELSE Null
  IN /\ turtles' = [fuel_level |-> p.fuel_level, inventory |-> p.inventory,
                     x |-> x, y |-> y, z |-> z,
                     heading |-> p.heading, label |-> p.label]
     /\ connection_status' = IF p.connection_status # Null
                             THEN p.connection_status[1]
                             ELSE "disconnected"
     /\ notify_change

\* db_state.set_state(turtle_id, **p): UPDATE with COALESCE per column if
\* the row exists, INSERT otherwise; then commit and notify.
set_state(p) ==
  LET x == IF p.coords # Null THEN <<p.coords[1]>> ELSE Null
      y == IF p.coords # Null THEN <<p.coords[2]>> ELSE Null
      z == IF p.coords # Null THEN <<p.coords[3]>> ELSE Null
  IN /\ IF Exists
        THEN /\ turtles' = [fuel_level |-> COALESCE(p.fuel_level, turtles.fuel_level),
                            inventory |-> COALESCE(p.inventory, turtles.inventory),
                            x |-> COALESCE(x, turtles.x),
                            y |-> COALESCE(y, turtles.y),
                            z |-> COALESCE(z, turtles.z),
                            heading |-> COALESCE(p.heading, turtles.heading),
                            label |-> COALESCE(p.label, turtles.label)]
             /\ connection_status' = IF p.connection_status # Null
                                     THEN p.connection_status[1]
                                     ELSE connection_status
        ELSE /\ turtles' = [fuel_level |-> p.fuel_level, inventory |-> p.inventory,
                            x |-> x, y |-> y, z |-> z,
                            heading |-> p.heading, label |-> p.label]
             /\ connection_status' = IF p.connection_status # Null
                                     THEN p.connection_status[1]
                                     ELSE "disconnected"
     /\ notify_change

\* A direct call of db_state.set_state (Turtle.on_connect, _apply_label,
\* _apply_location, _apply_inventory, _detect_real_state, ...).
SetState(p) ==
  /\ writes < MaxWrites
  /\ set_state(p)
  /\ call' = [NoCall EXCEPT !.name = "set_state", !.ok = TRUE, !.patch = p]
  /\ state_updated' = state_updated

\* db_state.upsert_seen: only last_seen_ms of an existing row changes; a
\* missing row is inserted with the column default of connection_status.
upsert_seen ==
  /\ writes < MaxWrites
  /\ turtles' = turtles
  /\ connection_status' = IF Exists THEN connection_status ELSE "disconnected"
  /\ notify_change
  /\ call' = [NoCall EXCEPT !.name = "upsert_seen", !.ok = TRUE]
  /\ state_updated' = state_updated

\* db_state.set_name_label(turtle_id, label=l)
set_name_label(l) ==
  /\ writes < MaxWrites
  /\ turtles' = IF Exists
                THEN [turtles EXCEPT !.label = COALESCE(l, @)]
                ELSE [NoRow EXCEPT !.label = l]
  /\ connection_status' = IF Exists THEN connection_status ELSE "disconnected"
  /\ notify_change
  /\ call' = [NoCall EXCEPT !.name = "set_name_label", !.ok = TRUE,
                            !.patch = [NoPatch EXCEPT !.label = l]]
  /\ state_updated' = state_updated

\* main.on_database_change, run by the loop for the oldest scheduled
\* notification: build_turtle_summary reads the row as it is now and the
\* event is handed to publish.
on_database_change ==
  /\ notifyQ # <<>>
  /\ state_updated' = Append(state_updated, [cause |-> Head(notifyQ), seen |-> writes])
  /\ notifyQ' = Tail(notifyQ)
  /\ call' = [NoCall EXCEPT !.name = "on_database_change", !.ok = TRUE]
  /\ UNCHANGED <<turtles, connection_status, writes>>

\* ------------------------------------------------- Turtle._Session moves
\* Variant of _apply_movement that subtracts the cost without the max(0, .).
apply_movement_NoClamp(dx, dy, dz, fuel_cost) ==
  LET st     == get_state
      coords == IF st.coords # Null THEN st.coords ELSE <<0, 0, 0>>
      fuel   == IF st.fuel_level # Null /\ fuel_cost # 0
                THEN <<st.fuel_level[1] - fuel_cost>>
                ELSE st.fuel_level
  IN set_state([NoPatch EXCEPT !.fuel_level = fuel,
                               !.coords = <<coords[1] + dx, coords[2] + dy, coords[3] + dz>>])

\* _apply_movement: a missing position counts as (0, 0, 0); a known fuel
\* level is lowered by the cost but not below 0.
apply_movement(dx, dy, dz, fuel_cost) ==
  LET st     == get_state
      coords == IF st.coords # Null THEN st.coords ELSE <<0, 0, 0>>
      fuel   == IF st.fuel_level # Null /\ fuel_cost # 0
                THEN <<Max(0, st.fuel_level[1] - fuel_cost)>>
                ELSE st.fuel_level
  IN set_state([NoPatch EXCEPT !.fuel_level = fuel,
                               !.coords = <<coords[1] + dx, coords[2] + dy, coords[3] + dz>>])

\* Variant of _apply_heading without the reduction modulo 4.
apply_heading_NoMod(delta) ==
  set_state([NoPatch EXCEPT !.heading = <<get_state.heading[1] + delta>>])

\* _apply_heading
apply_heading(delta) ==
  set_state([NoPatch EXCEPT !.heading = <<(get_state.heading[1] + delta) % 4>>])

NoWrite == UNCHANGED <<turtles, connection_status, writes, notifyQ>>

\* forward / back: the reply says whether the turtle moved; the stored
\* heading picks the axis, and no heading in 0..3 means no update.
forward_db(ok) ==
  IF ~ok THEN NoWrite
  ELSE IF get_state.heading = <<0>> THEN apply_movement(1, 0, 0, 1)
  ELSE IF get_state.heading = <<1>> THEN apply_movement(0, 0, 1, 1)
  ELSE IF get_state.heading = <<2>> THEN apply_movement(-1, 0, 0, 1)
  ELSE IF get_state.heading = <<3>> THEN apply_movement(0, 0, -1, 1)
  ELSE NoWrite

\* Session.forward as one call on the store.
forward(ok) ==
  /\ writes < MaxWrites
  /\ forward_db(ok)
  /\ call' = [NoCall EXCEPT !.name = "forward", !.ok = ok]
  /\ state_updated' = state_updated

back_db(ok) ==
  IF ~ok THEN NoWrite
  ELSE IF get_state.heading = <<0>> THEN apply_movement(-1, 0, 0, 1)
  ELSE IF get_state.heading = <<1>> THEN apply_movement(0, 0, -1, 1)
  ELSE IF get_state.heading = <<2>> THEN apply_movement(1, 0, 0, 1)
  ELSE IF get_state.heading = <<3>> THEN apply_movement(0, 0, 1, 1)
  ELSE NoWrite

\* Session.back as one call on the store.
back(ok) ==
  /\ writes < MaxWrites
  /\ back_db(ok)
  /\ call' = [NoCall EXCEPT !.name = "back", !.ok = ok]
  /\ state_updated' = state_updated

up(ok) ==
  /\ writes < MaxWrites
  /\ IF ok THEN apply_movement(0, 1, 0, 1) ELSE NoWrite
  /\ call' = [NoCall EXCEPT !.name = "up", !.ok = ok]
  /\ state_updated' = state_updated

down(ok) ==
  /\ writes < MaxWrites
  /\ IF ok THEN apply_movement(0, -1, 0, 1) ELSE NoWrite
  /\ call' = [NoCall EXCEPT !.name = "down", !.ok = ok]
  /\ state_updated' = state_updated

\* turn_left / turn_right: with no stored heading _apply_heading raises
\* TypeError (None + int) after the turtle has turned.
turn_left_db(ok) ==
  IF ok /\ get_state.heading # Null THEN apply_heading(-1) ELSE NoWrite

turn_right_db(ok) ==
  IF ok /\ get_state.heading # Null THEN apply_heading(1) ELSE NoWrite

\* Session.turn_left / turn_right as one call on the store.
turn_left(ok) ==
  /\ writes < MaxWrites
  /\ turn_left_db(ok)
  /\ call' = [NoCall EXCEPT !.name = "turn_left", !.ok = ok,
                            !.raised = (ok /\ get_state.heading = Null)]
  /\ state_updated' = state_updated

turn_right(ok) ==
  /\ writes < MaxWrites
  /\ turn_right_db(ok)
  /\ call' = [NoCall EXCEPT !.name = "turn_right", !.ok = ok,
                            !.raised = (ok /\ get_state.heading = Null)]
  /\ state_updated' = state_updated

\* ------------------------------------------------- specifications of the store
\* A step of the store or of a session call: the gateway does not move.
KeepGateway == UNCHANGED <<gatewayVars, resp, subVars>>

\* Rows the store can hold: x, y and z are set together.
Rows(F, I, C, H, L) ==
  {r \in [fuel_level : Opt(F), inventory : Opt(I), x : Opt(C), y : Opt(C), z : Opt(C),
          heading : Opt(H), label : Opt(L)] :
     (r.x = Null) = (r.y = Null) /\ (r.y = Null) = (r.z = Null)}

\* The session calls on a turtle with any stored position, heading and
\* fuel level.
MoveInit ==
  /\ GatewayIdle
  /\ resp = NoResp
  /\ StoreIdle
  /\ SubIdle
  /\ turtles \in Rows(0..MaxFuel, {}, (-MaxCoord)..MaxCoord, 0..3, {})
  /\ connection_status = "connected"

MoveNext ==
  \/ KeepGateway /\ \E ok \in BOOLEAN : forward(ok)
  \/ KeepGateway /\ \E ok \in BOOLEAN : back(ok)
  \/ KeepGateway /\ \E ok \in BOOLEAN : up(ok)
  \/ KeepGateway /\ \E ok \in BOOLEAN : down(ok)
  \/ KeepGateway /\ \E ok \in BOOLEAN : turn_left(ok)
  \/ KeepGateway /\ \E ok \in BOOLEAN : turn_right(ok)
  \/ KeepGateway /\ on_database_change

SpecMove == MoveInit /\ [][MoveNext]_vars

\* The keyword arguments a caller passes to set_state.
Patches ==
  [fuel_level : Opt({MaxFuel}), inventory : Opt({"inv2"}),
   coords : {Null, <<MaxCoord, 0, -MaxCoord>>}, heading : Opt({3}),
   connection_status : Opt({"connected", "disconnected"}), label : Opt({"label2"})]

\* The store calls on a missing row or on a row with any columns set.
StoreInit ==
  /\ GatewayIdle
  /\ resp = NoResp
  /\ StoreIdle
  /\ SubIdle
  /\ \/ turtles = NoRow /\ connection_status = "none"
     \/ /\ turtles \in Rows({0}, {"inv1"}, {0}, {0}, {"label1"})
        /\ connection_status \in {"connected", "disconnected"}

StoreNext ==
  \/ KeepGateway /\ \E p \in Patches : SetState(p)
  \/ KeepGateway /\ upsert_seen
  \/ KeepGateway /\ \E l \in Opt({"label2"}) : set_name_label(l)
  \/ KeepGateway /\ on_database_change

SpecStore == StoreInit /\ [][StoreNext]_vars

\* The loop runs every callback scheduled with run_coroutine_threadsafe.
SpecStoreLive == SpecStore /\ WF_vars(KeepGateway /\ on_database_change)

\* v is Null or <<a value of S>>.
IsOpt(v, S) == v = Null \/ (Len(v) = 1 /\ v[1] \in S)

StoreTypeOK ==
  /\ IsOpt(turtles.fuel_level, Nat)
  /\ IsOpt(turtles.inventory, {"inv1", "inv2"})
  /\ IsOpt(turtles.x, Int) /\ IsOpt(turtles.y, Int) /\ IsOpt(turtles.z, Int)
  /\ IsOpt(turtles.heading, Int)
  /\ IsOpt(turtles.label, {"label1", "label2"})
  /\ writes \in 0..MaxWrites
  /\ notifyQ \in Seq(1..MaxWrites)
  /\ state_updated \in Seq([cause : 1..MaxWrites, seen : 1..MaxWrites])
  /\ call.name \in {"none", "set_state", "upsert_seen", "set_name_label",
                    "on_database_change", "forward", "back", "up", "down",
                    "turn_left", "turn_right"}

\* ------------------------------------------------- subroutines.mine_ore_vein
\* The largest max_actions a caller passes.
MaxActions == 10

start_pos == <<0, 0, 0>>
start_dir_idx == 0

\* Heading 0:+X, 1:+Z, 2:-X, 3:-Z.
dir_vecs == <<<<1, 0, 0>>, <<0, 0, 1>>, <<-1, 0, 0>>, <<0, 0, -1>>>>

add_vec(a, b) == <<a[1] + b[1], a[2] + b[2], a[3] + b[3]>>

\* (step[0]-pos[0], step[1]-pos[1], step[2]-pos[2])
sub_vec(a, b) == <<a[1] - b[1], a[2] - b[2], a[3] - b[3]>>

\* bfs_path: the order in which the six neighbours of a cell are tried.
neighbors == <<<<1, 0, 0>>, <<-1, 0, 0>>, <<0, 0, 1>>, <<0, 0, -1>>, <<0, 1, 0>>, <<0, -1, 0>>>>

\* adjacent_mined_neighbors: the step into the target and the direction to
\* face for it (-1 for a vertical step), in the order they are tried.
cands ==
  <<[dv |-> <<1, 0, 0>>, fdir |-> 0], [dv |-> <<0, 0, 1>>, fdir |-> 1],
    [dv |-> <<-1, 0, 0>>, fdir |-> 2], [dv |-> <<0, 0, -1>>, fdir |-> 3],
    [dv |-> <<0, 1, 0>>, fdir |-> -1], [dv |-> <<0, -1, 0>>, fdir |-> -1]>>

\* is_ore: "ore" in name.lower(), on the block names of the model.
is_ore(name) == name \in {"minecraft:iron_ore"}

\* The cells that may hold an ore block when the subroutine is called; every
\* other cell but start_pos holds stone.
OreCells == {<<1, 0, 0>>, <<2, 0, 0>>, <<0, 1, 0>>, <<1, 1, 0>>, <<0, 0, -1>>}

\* What inspect, inspect_up or inspect_down reports for cell c: the name of
\* the block, or None when there is no block.
inspect(c, ore, air) ==
  IF c \in ore THEN "minecraft:iron_ore" ELSE IF c \in air THEN "None" ELSE "minecraft:stone"

\* bfs_path, inner for loop: the neighbours of cur from the i-th on.
RECURSIVE bfs_expand(_, _, _, _, _)
bfs_expand(node, i, q, came, mined) ==
  IF i > Len(neighbors) THEN <<q, came>>
  ELSE LET nxt == add_vec(node, neighbors[i])
       IN IF nxt \in mined /\ nxt \notin DOMAIN came
          THEN bfs_expand(node, i + 1, Append(q, nxt), (nxt :> node) @@ came, mined)
          ELSE bfs_expand(node, i + 1, q, came, mined)

\* bfs_path, while q loop: returns the dict came.
RECURSIVE bfs_search(_, _, _, _)
bfs_search(q, came, goal, mined) ==
  IF q = <<>> \/ Head(q) = goal THEN came
  ELSE LET e == bfs_expand(Head(q), 1, Tail(q), came, mined)
       IN bfs_search(e[1], e[2], goal, mined)

\* bfs_path, the walk back from the goal along came, reversed.
RECURSIVE bfs_walk(_, _)
bfs_walk(node, came) ==
  IF node = Null THEN <<>> ELSE Append(bfs_walk(came[node], came), node)

\* bfs_path(start, goal) over the cells of mined; Null when there is none.
bfs_path(start, goal, mined) ==
  IF start = goal THEN <<start>>
  ELSE LET came == bfs_search(<<start>>, (start :> Null), goal, mined)
       IN IF goal \notin DOMAIN came THEN Null ELSE bfs_walk(goal, came)

refresh_frontier_here_Level(v) ==
  LET adjs == {add_vec(v.pos, dir_vecs[i]) : i \in 1..Len(dir_vecs)}
      insp == [c \in DOMAIN v.inspected \cup adjs |->
                 IF c \in DOMAIN v.inspected THEN v.inspected[c]
                 ELSE inspect(c, v.ore, v.air)]
  IN [v EXCEPT !.inspected = insp,
               !.frontier = @ \cup {c \in adjs : is_ore(insp[c]) /\ c \notin v.mined}]

\* refresh_frontier_here at v.pos: the six neighbours not yet in inspected
\* are inspected, and those known as ore and not mined join the frontier;
\* the four right turns and the left turns back leave dir_idx as it was.
refresh_frontier_here(v) ==
  LET adjs == {add_vec(v.pos, neighbors[i]) : i \in 1..Len(neighbors)}
      insp == [c \in DOMAIN v.inspected \cup adjs |->
                 IF c \in DOMAIN v.inspected THEN v.inspected[c]
                 ELSE inspect(c, v.ore, v.air)]
  IN [v EXCEPT !.inspected = insp,
               !.frontier = @ \cup {c \in adjs : is_ore(insp[c]) /\ c \notin v.mined}]

\* step_forward_local, step_up_local, step_down_local into cell c: the move
\* succeeds iff no block is there, and pos follows only a successful move.
step_local(v, c) ==
  IF c \in v.air THEN [v EXCEPT !.pos = c, !.moves = @ + 1] ELSE v

\* One step of a path: up, down, or face the direction of the step (when it
\* is one of dir_vecs) and go forward.
follow(v, step) ==
  LET dv == sub_vec(step, v.pos)
  IN IF dv = <<0, 1, 0>> THEN step_local(v, add_vec(v.pos, <<0, 1, 0>>))
     ELSE IF dv = <<0, -1, 0>> THEN step_local(v, add_vec(v.pos, <<0, -1, 0>>))
     ELSE LET I == {i \in 1..Len(dir_vecs) : dir_vecs[i] = dv}
              w == IF I # {} THEN [v EXCEPT !.dir_idx = (CHOOSE i \in I : TRUE) - 1] ELSE v
          IN step_local(w, add_vec(w.pos, dir_vecs[w.dir_idx + 1]))

\* dig, dig_up or dig_down on cell c: a block is removed iff there is one
\* and the turtle carries a tool.
dig_cell(v, c) ==
  IF c \notin v.air /\ v.tool
  THEN [v EXCEPT !.ore = @ \ {c}, !.air = @ \cup {c}, !.digs = @ + 1]
  ELSE v

\* The state at the call: pose and bookkeeping as lines 21-76 set them;
\* ore0 keeps the ore cells of the world as they were at the call.
VeinInit ==
  /\ GatewayIdle
  /\ connection_status = "none"
  /\ resp = NoResp
  /\ turtles = NoRow
  /\ StoreIdle
  /\ dig = NotCalled
  /\ inv = NotCalled
  /\ app = NotCalled
  /\ det = NotCalled
  /\ prim = NotCalled
  /\ bus = NotCalled
  /\ mtc = NotCalled
  /\ dump = NotCalled
  /\ calc = NotCalled
  /\ \E ore \in SUBSET OreCells, m \in 0..MaxActions, tool \in BOOLEAN :
       vein = [pc |-> "start", pos |-> start_pos, dir_idx |-> start_dir_idx,
               mined |-> {start_pos}, frontier |-> {}, inspected |-> [c \in {} |-> "None"],
               actions |-> 0, max_actions |-> m,
               path |-> <<>>, target |-> start_pos, delta |-> start_pos, face_idx |-> 0,
               ore |-> ore, air |-> {start_pos}, tool |-> tool, moves |-> 0, digs |-> 0,
               ore0 |-> ore]

\* await refresh_frontier_here() before the loop.
VeinStart ==
  /\ vein.pc = "start"
  /\ vein' = [refresh_frontier_here(vein) EXCEPT !.pc = "loop"]

VeinChoose_AnyReachable ==
  /\ vein.pc = "loop"
  /\ IF vein.frontier # {} /\ vein.actions < vein.max_actions
     THEN LET adj(t, k) == sub_vec(t, cands[k].dv)
              P(t, k) == bfs_path(vein.pos, adj(t, k), vein.mined)
              C == {tk \in vein.frontier \X (1..Len(cands)) :
                      adj(tk[1], tk[2]) \in vein.mined /\ P(tk[1], tk[2]) # Null}
          IN IF C = {}
             THEN vein' = [vein EXCEPT !.pc = "return"]
             ELSE \E tk \in C :
                    vein' = [vein EXCEPT !.pc = "path",
                                         !.path = Tail(P(tk[1], tk[2])),
                                         !.target = tk[1],
                                         !.delta = cands[tk[2]].dv,
                                         !.face_idx = cands[tk[2]].fdir]
     ELSE vein' = [vein EXCEPT !.pc = "return"]

\* The head of the while loop and the choice of best: over the frontier in
\* set order and the mined neighbours of each target in the order of cands,
\* the first pair with the shortest path from pos wins.
VeinChoose ==
  /\ vein.pc = "loop"
  /\ IF vein.frontier # {} /\ vein.actions < vein.max_actions
     THEN LET adj(t, k) == sub_vec(t, cands[k].dv)
              P(t, k) == bfs_path(vein.pos, adj(t, k), vein.mined)
              C == {tk \in vein.frontier \X (1..Len(cands)) :
                      adj(tk[1], tk[2]) \in vein.mined /\ P(tk[1], tk[2]) # Null}
          IN IF C = {}
             THEN vein' = [vein EXCEPT !.pc = "return"]
             ELSE \E tk \in C :
                    /\ \A o \in C : Len(P(tk[1], tk[2])) <= Len(P(o[1], o[2]))
                    /\ \A o \in C : (o[1] = tk[1] /\ o[2] < tk[2])
                                      => Len(P(o[1], o[2])) > Len(P(tk[1], tk[2]))
                    /\ vein' = [vein EXCEPT !.pc = "path",
                                            !.path = Tail(P(tk[1], tk[2])),
                                            !.target = tk[1],
                                            !.delta = cands[tk[2]].dv,
                                            !.face_idx = cands[tk[2]].fdir]
     ELSE vein' = [vein EXCEPT !.pc = "return"]

\* One step of for step in path[1:], counted as one action.
VeinPathStep ==
  /\ vein.pc = "path"
  /\ vein.path # <<>>
  /\ LET v == [follow(vein, Head(vein.path)) EXCEPT !.actions = @ + 1]
     IN vein' = IF v.actions >= v.max_actions
                THEN [v EXCEPT !.pc = "return"]
                ELSE [v EXCEPT !.path = Tail(@)]

\* The end of the path: dig the target and step into it, counted together
\* as one action; then mined.add(pos), frontier.discard(target) and
\* refresh_frontier_here().
VeinDigStep ==
  /\ vein.pc = "path"
  /\ vein.path = <<>>
  /\ IF vein.actions >= vein.max_actions
     THEN vein' = [vein EXCEPT !.pc = "return"]
     ELSE LET f == IF vein.face_idx >= 0 THEN [vein EXCEPT !.dir_idx = vein.face_idx] ELSE vein
              c == IF vein.face_idx >= 0
                   THEN add_vec(f.pos, dir_vecs[f.dir_idx + 1])
                   ELSE add_vec(f.pos, f.delta)
              m == step_local(dig_cell(f, c), c)
              b == [m EXCEPT !.mined = @ \cup {m.pos},
                             !.frontier = @ \ {m.target},
                             !.actions = @ + 1]
          IN vein' = [refresh_frontier_here(b) EXCEPT !.pc = "loop"]

\* if pos != start_pos: ph = bfs_path(pos, start_pos)
VeinReturnPlan ==
  /\ vein.pc = "return"
  /\ LET ph == IF vein.pos # start_pos
               THEN bfs_path(vein.pos, start_pos, vein.mined)
               ELSE Null
     IN vein' = [vein EXCEPT !.pc = "home",
                             !.path = IF ph # Null THEN Tail(ph) ELSE <<>>]

\* One step of for step in ph[1:]; actions is not incremented here.
VeinReturnStep ==
  /\ vein.pc = "home"
  /\ vein.path # <<>>
  /\ vein' = [follow(vein, Head(vein.path)) EXCEPT !.path = Tail(@)]

\* await face_dir(start_dir_idx) and return.
VeinFinish ==
  /\ vein.pc = "home"
  /\ vein.path = <<>>
  /\ vein' = [vein EXCEPT !.pc = "done", !.dir_idx = start_dir_idx]

VeinOnly == UNCHANGED <<gatewayVars, resp, connection_status, storeVars, dig, inv, app, det, prim, bus, mtc, dump, calc>>

VeinNext ==
  \/ VeinOnly /\ VeinStart
  \/ VeinOnly /\ VeinChoose
  \/ VeinOnly /\ VeinPathStep
  \/ VeinOnly /\ VeinDigStep
  \/ VeinOnly /\ VeinReturnPlan
  \/ VeinOnly /\ VeinReturnStep
  \/ VeinOnly /\ VeinFinish

SpecVein == VeinInit /\ [][VeinNext]_vars

\* The coroutine is run until it returns.
SpecVeinLive == SpecVein /\ WF_vars(VeinNext)

\* ------------------------------------------------- subroutines.dig_to_coordinate
\* Variant of face_dir that sends no turn and keeps the heading.
face_dir_NoTurn(h, target_idx) == h

\* face_dir(target_idx) from local heading h: one right turn, two right
\* turns or one left turn, until the heading is target_idx.
RECURSIVE face_dir(_, _)
face_dir(h, target_idx) ==
  IF h = target_idx THEN h
  ELSE LET cw == (target_idx - h) % 4
       IN IF cw = 1 THEN face_dir((h + 1) % 4, target_idx)
          ELSE IF cw = 2 THEN face_dir((h + 2) % 4, target_idx)
          ELSE face_dir((h + 3) % 4, target_idx)

\* forward_dig_step after face_dir(dir_idx): inspect and dig ahead and above,
\* then forward; ok is what forward returns.  x and z follow dir_vecs[heading]
\* only when the move succeeded.
forward_dig_step(d, dir_idx, ok) ==
  LET h == face_dir(d.heading, dir_idx)
  IN IF ok
     THEN [d EXCEPT !.heading = h,
                    !.x = @ + dir_vecs[h + 1][1],
                    !.z = @ + dir_vecs[h + 1][3],
                    !.moves = @ + 1]
     ELSE [d EXCEPT !.heading = h, !.failed = TRUE]

\* vertical_step(up): inspect and dig above or below, then up or down.
vertical_step(d, up_, ok) ==
  IF ok
  THEN [d EXCEPT !.y = IF up_ THEN @ + 1 ELSE @ - 1, !.moves = @ + 1]
  ELSE [d EXCEPT !.failed = TRUE]

\* The state at the call: x, y, z and heading as get_state gives them, and
\* the target of the config.
DigInit ==
  /\ GatewayIdle
  /\ connection_status = "none"
  /\ resp = NoResp
  /\ turtles = NoRow
  /\ StoreIdle
  /\ vein = NotCalled
  /\ inv = NotCalled
  /\ app = NotCalled
  /\ det = NotCalled
  /\ prim = NotCalled
  /\ bus = NotCalled
  /\ mtc = NotCalled
  /\ dump = NotCalled
  /\ calc = NotCalled
  /\ \E x, y, z, tx, ty, tz \in (-MaxCoord)..MaxCoord, heading \in 0..3 :
       dig = [pc |-> "x", x |-> x, y |-> y, z |-> z, tx |-> tx, ty |-> ty, tz |-> tz,
              heading |-> heading, failed |-> FALSE, moves |-> 0]

\* while x != tx: one iteration; a failed forward_dig_step breaks the loop.
DigXStep(ok) ==
  /\ dig.pc = "x"
  /\ dig.x # dig.tx
  /\ LET d == forward_dig_step(dig, IF dig.tx > dig.x THEN 0 ELSE 2, ok)
     IN dig' = IF ok THEN d ELSE [d EXCEPT !.pc = "z"]

\* while x != tx: the loop ends with x = tx.
DigXEnd ==
  /\ dig.pc = "x"
  /\ dig.x = dig.tx
  /\ dig' = [dig EXCEPT !.pc = "z"]

\* while z != tz: one iteration.
DigZStep(ok) ==
  /\ dig.pc = "z"
  /\ dig.z # dig.tz
  /\ LET d == forward_dig_step(dig, IF dig.tz > dig.z THEN 1 ELSE 3, ok)
     IN dig' = IF ok THEN d ELSE [d EXCEPT !.pc = "up"]

\* while z != tz: the loop ends with z = tz.
DigZEnd ==
  /\ dig.pc = "z"
  /\ dig.z = dig.tz
  /\ dig' = [dig EXCEPT !.pc = "up"]

\* while y < ty: one iteration.
DigUpStep(ok) ==
  /\ dig.pc = "up"
  /\ dig.y < dig.ty
  /\ LET d == vertical_step(dig, TRUE, ok)
     IN dig' = IF ok THEN d ELSE [d EXCEPT !.pc = "down"]

\* while y < ty: the loop ends.
DigUpEnd ==
  /\ dig.pc = "up"
  /\ ~(dig.y < dig.ty)
  /\ dig' = [dig EXCEPT !.pc = "down"]

\* while y > ty: one iteration.
DigDownStep(ok) ==
  /\ dig.pc = "down"
  /\ dig.y > dig.ty
  /\ LET d == vertical_step(dig, FALSE, ok)
     IN dig' = IF ok THEN d ELSE [d EXCEPT !.pc = "done"]

\* while y > ty: the loop ends and dig_to_coordinate returns.
DigDownEnd ==
  /\ dig.pc = "down"
  /\ ~(dig.y > dig.ty)
  /\ dig' = [dig EXCEPT !.pc = "done"]

DigOnly == UNCHANGED <<gatewayVars, resp, connection_status, storeVars, vein, inv, app, det, prim, bus, mtc, dump, calc>>

DigNext ==
  \/ DigOnly /\ \E ok \in BOOLEAN : DigXStep(ok)
  \/ DigOnly /\ DigXEnd
  \/ DigOnly /\ \E ok \in BOOLEAN : DigZStep(ok)
  \/ DigOnly /\ DigZEnd
  \/ DigOnly /\ \E ok \in BOOLEAN : DigUpStep(ok)
  \/ DigOnly /\ DigUpEnd
  \/ DigOnly /\ \E ok \in BOOLEAN : DigDownStep(ok)
  \/ DigOnly /\ DigDownEnd

SpecDig == DigInit /\ [][DigNext]_vars

\* The coroutine is run until it returns.
SpecDigLive == SpecDig /\ WF_vars(DigNext)

\* ------------------------------------------------- Turtle._Session.get_inventory_details
\* for slot in range(1, 17)
NumSlots == 16

\* The most entries a reply carries beyond NumSlots.
MaxExtra == 1

\* The JSON values of a reply: null, an object with the keys of kv, and a
\* string.
JNull == [json |-> "null", kv |-> <<>>]
JObj(kv) == [json |-> "object", kv |-> kv]
JStr == [json |-> "string", kv |-> <<>>]

\* The tags _evaluate_inventory_returns looks for.
InventoryTags == {"c:ores", "c:gems", "c:stones", "c:chests", "minecraft:building_blocks"}

\* dict.get(key, default)
Get(d, key, default) == IF key \in DOMAIN d THEN d[key] ELSE default

\* The entries a reply is built from: an empty slot, a full item detail, an
\* item detail with the name only, an empty object and a string.
Entries ==
  {JNull,
   JObj([name |-> "minecraft:coal", displayName |-> "Coal", count |-> 32,
         tags |-> {"c:ores"}]),
   JObj([name |-> "minecraft:dirt"]),
   JObj(<<>>),
   JStr}

\* The values eval("get_inventory_details()") returns: False after a failed
\* eval, or a list that holds entry e at position p and entry rest elsewhere.
Replies ==
  {[list |-> FALSE, items |-> <<>>]} \cup
  {[list |-> TRUE, items |-> [i \in 1..n |-> IF i = p THEN e ELSE rest]] :
     n \in 0..(NumSlots + MaxExtra), p \in 1..(NumSlots + MaxExtra),
     e \in Entries, rest \in {JNull, JObj([name |-> "minecraft:dirt"])}}

\* raw_data.get on something that is not a dict raises AttributeError.
Raises(item) == item.json = "string"

\* _evaluate_inventory_returns({"ok": True, "data": item}) for a dict item:
\* Null for (False, None), else <<result>> with the defaults overwritten by
\* name, displayName, count and by True for every tag among the item's tags.
evaluate_inventory_returns(item) ==
  IF DOMAIN item.kv = {} THEN Null
  ELSE <<[k \in {"name", "displayName", "count"} \cup InventoryTags |->
            CASE k = "name" -> Get(item.kv, "name", "unknown")
              [] k = "displayName" -> Get(item.kv, "displayName", "Unknown")
              [] k = "count" -> Get(item.kv, "count", 0)
              [] OTHER -> k \in Get(item.kv, "tags", {})]>>

\* for i, item in enumerate(raw_inventory), from the i-th entry on:
\* slot = i (1-based here) gets the processed item with its slot number.
RECURSIVE process_items(_, _, _)
process_items(items, i, processed_inventory) ==
  IF i > Len(items) THEN processed_inventory
  ELSE LET processed_item == IF items[i].json = "null" THEN Null
                             ELSE evaluate_inventory_returns(items[i])
       IN IF processed_item # Null
          THEN process_items(items, i + 1,
                 (i :> <<("slot" :> i) @@ processed_item[1]>>) @@ processed_inventory)
          ELSE process_items(items, i + 1, processed_inventory)

\* json.dumps of a dict with integer keys: the keys become strings.
dumps(d) ==
  [s \in {ToString(k) : k \in DOMAIN d} |-> d[CHOOSE k \in DOMAIN d : ToString(k) = s]]

\* get_inventory_details for the reply raw: all NumSlots slots None, then the
\* entries of a list, then _apply_inventory; an exception on the way gives
\* None and stores nothing.
get_inventory_details(raw) ==
  /\ inv.pc = "ready"
  /\ IF raw.list /\ \E i \in 1..Len(raw.items) : Raises(raw.items[i])
     THEN /\ inv' = [pc |-> "done", raw |-> raw, returned |-> Null]
          /\ call' = [NoCall EXCEPT !.name = "get_inventory_details", !.raised = TRUE]
          /\ NoWrite
     ELSE LET processed_inventory ==
                process_items(IF raw.list THEN raw.items ELSE <<>>, 1,
                              [slot \in 1..NumSlots |-> Null])
          IN /\ inv' = [pc |-> "done", raw |-> raw, returned |-> <<processed_inventory>>]
             /\ call' = [NoCall EXCEPT !.name = "get_inventory_details", !.ok = TRUE]
             /\ set_state([NoPatch EXCEPT !.inventory = <<dumps(processed_inventory)>>])
  /\ state_updated' = state_updated

\* The state at the call: the session of a connected turtle whose row
\* initialize_state has filled.
InvInit ==
  /\ GatewayIdle
  /\ resp = NoResp
  /\ StoreIdle
  /\ turtles = [NoRow EXCEPT !.fuel_level = <<0>>, !.x = <<0>>, !.y = <<0>>,
                             !.z = <<0>>, !.heading = <<0>>]
  /\ connection_status = "connected"
  /\ vein = NotCalled
  /\ dig = NotCalled
  /\ app = NotCalled
  /\ det = NotCalled
  /\ prim = NotCalled
  /\ bus = NotCalled
  /\ mtc = NotCalled
  /\ dump = NotCalled
  /\ calc = NotCalled
  /\ inv = [pc |-> "ready", raw |-> [list |-> FALSE, items |-> <<>>], returned |-> Null]

InvOnly == UNCHANGED <<gatewayVars, resp, vein, dig, app, det, prim, bus, mtc, dump, calc>>

InvNext ==
  \/ InvOnly /\ \E raw \in Replies : get_inventory_details(raw)
  \/ InvOnly /\ on_database_change /\ UNCHANGED inv

SpecInv == InvInit /\ [][InvNext]_vars

\* ------------------------------------------------- Turtle._detect_real_state
\* The block a turtle that faces h moves to with forward(): heading 0 is
\* +X, 1 is +Z, 2 is -X, 3 is -Z, and a right turn adds one.
facing_vec(h) == dir_vecs[h + 1]

\* Where the turtle stands when it connects: the origin or another block.
StartCells == {<<0, 0, 0>>, <<MaxCoord, MaxCoord, MaxCoord>>}

\* Variant of the heading computation that does not subtract the rotations.
probe_heading_NoSubtract(dx, dz, rotations) ==
  IF dx = 1 /\ dz = 0 THEN <<0>>
  ELSE IF dx = -1 /\ dz = 0 THEN <<2>>
  ELSE IF dz = 1 /\ dx = 0 THEN <<1>>
  ELSE IF dz = -1 /\ dx = 0 THEN <<3>>
  ELSE Null

\* heading_val of the probe from the GPS delta and the number of right
\* turns made before the move; None when the delta is no unit step.
probe_heading(dx, dz, rotations) ==
  IF dx = 1 /\ dz = 0 THEN <<(0 - rotations) % 4>>
  ELSE IF dx = -1 /\ dz = 0 THEN <<(2 - rotations) % 4>>
  ELSE IF dz = 1 /\ dx = 0 THEN <<(1 - rotations) % 4>>
  ELSE IF dz = -1 /\ dx = 0 THEN <<(3 - rotations) % 4>>
  ELSE Null

\* A step of the connection handler or of the detection task: nothing else
\* runs.
DetOnly == UNCHANGED <<gatewayVars, resp, state_updated, call, vein, dig, inv, app, prim, bus, mtc, dump, calc>>

\* A connection has been accepted for a turtle id that has no row, or has
\* one with a position from an earlier connection; the turtle stands on c0
\* and faces h0, and solid are the headings in which a block is next to c0.
DetInit ==
  /\ GatewayIdle
  /\ resp = NoResp
  /\ StoreIdle
  /\ vein = NotCalled
  /\ dig = NotCalled
  /\ inv = NotCalled
  /\ app = NotCalled
  /\ prim = NotCalled
  /\ bus = NotCalled
  /\ mtc = NotCalled
  /\ dump = NotCalled
  /\ calc = NotCalled
  /\ \/ turtles = NoRow /\ connection_status = "none"
     \/ /\ turtles \in {r \in Rows({1}, {"inv1"}, {MaxCoord}, 0..3, {}) :
                          /\ r.fuel_level # Null /\ r.inventory # Null
                          /\ r.x # Null /\ r.heading # Null}
        /\ connection_status = "disconnected"
  /\ \E c0 \in StartCells, h0 \in 0..3, solid \in SUBSET (0..3) :
       det = [pc |-> "accepted", new |-> (connection_status = "none"),
              c0 |-> c0, h0 |-> h0, solid |-> solid, pos |-> c0, face |-> h0,
              gps |-> FALSE, fuel_int |-> Null, coords_tuple |-> Null,
              rotations |-> 0, lefts |-> 0, fwd |-> "none", bck |-> "none",
              loc2 |-> Null, heading_val |-> Null]

\* Turtle.initialize_state, called by _ws_handler: a turtle without stored
\* coords gets the defaults coords (0,0,0), heading 0, fuel level 0; then the
\* detection task is created.
initialize_state ==
  /\ det.pc = "accepted"
  /\ IF get_state.coords # Null
     THEN NoWrite
     ELSE set_state([NoPatch EXCEPT !.coords = <<0, 0, 0>>, !.heading = <<0>>,
                                    !.fuel_level = <<0>>])
  /\ det' = [det EXCEPT !.pc = "on_connect"]

\* Turtle.on_connect, called by on_turtle_connect in the same stretch of
\* the handler: the row is marked connected.
DetOnConnect ==
  /\ det.pc = "on_connect"
  /\ set_state([NoPatch EXCEPT !.connection_status = <<"connected">>])
  /\ det' = [det EXCEPT !.pc = "seen"]

\* Turtle.on_connect goes on: upsert_seen touches last_seen_ms of the row,
\* and the second initialize_state finds coords stored and writes nothing.
DetSeen ==
  /\ det.pc = "seen"
  /\ turtles' = turtles
  /\ connection_status' = connection_status
  /\ notify_change
  /\ det' = [det EXCEPT !.pc = "fuel"]

\* fuel = await sess.get_fuel_level(): a number, or False when the command
\* failed, and int(False) is 0.
DetFuel(ok) ==
  /\ det.pc = "fuel"
  /\ NoWrite
  /\ det' = [det EXCEPT !.fuel_int = IF ok THEN <<MaxFuel>> ELSE <<0>>, !.pc = "gps"]

\* loc = await sess.get_location(): a valid reply is the block the turtle
\* stands on, which _apply_location stores; any other reply stores nothing.
get_location(ok) ==
  IF ok THEN set_state([NoPatch EXCEPT !.coords = det.pos]) ELSE NoWrite

DetGps(ok) ==
  /\ det.pc = "gps"
  /\ get_location(ok)
  /\ det' = [det EXCEPT !.coords_tuple = IF ok THEN det.pos ELSE Null,
                        !.gps = ok, !.pc = "inventory"]

\* await sess.get_inventory_details(): the normalized inventory is stored,
\* also when the reply was no list.
DetInventory(i) ==
  /\ det.pc = "inventory"
  /\ set_state([NoPatch EXCEPT !.inventory = <<i>>])
  /\ det' = [det EXCEPT !.pc = "label"]

\* label = await sess.get_label(); the probe follows only if GPS gave
\* coords other than (0, 0, 0).
DetLabel(l) ==
  /\ det.pc = "label"
  /\ IF l # Null THEN set_state([NoPatch EXCEPT !.label = l]) ELSE NoWrite
  /\ det' = [det EXCEPT !.pc = IF det.coords_tuple # Null /\ det.coords_tuple # <<0, 0, 0>>
                               THEN "inspect" ELSE "persist"]

\* ok, _info = await sess.inspect(): not ok means air in front.
DetInspect ==
  /\ det.pc = "inspect"
  /\ NoWrite
  /\ det' = [det EXCEPT !.pc = IF det.face \notin det.solid THEN "forward" ELSE "turn_right"]

\* await sess.turn_right(); rotations += 1; after the fourth turn the loop
\* ends with no air found.
DetTurnRight ==
  /\ det.pc = "turn_right"
  /\ turn_right_db(TRUE)
  /\ det' = [det EXCEPT !.face = (@ + 1) % 4, !.rotations = @ + 1,
                        !.pc = IF det.rotations + 1 < 4 THEN "inspect" ELSE "persist"]

\* await sess.forward(): its result is not looked at.
DetForward(ok) ==
  /\ det.pc = "forward"
  /\ forward_db(ok)
  /\ det' = [det EXCEPT !.pos = IF ok THEN add_vec(@, facing_vec(det.face)) ELSE @,
                        !.fwd = IF ok THEN "ok" ELSE "failed", !.pc = "gps2"]

\* loc2_list = await sess.get_location()
DetGps2(ok) ==
  /\ det.pc = "gps2"
  /\ get_location(ok)
  /\ det' = [det EXCEPT !.loc2 = IF ok THEN det.pos ELSE Null,
                        !.gps = @ \/ ok, !.pc = "back"]

\* await sess.back(): after a forward that failed the turtle backs off its
\* block unless a block is behind it.
DetBack(ok) ==
  /\ det.pc = "back"
  /\ ok => (det.fwd = "ok" \/ (det.face + 2) % 4 \notin det.solid)
  /\ back_db(ok)
  /\ det' = [det EXCEPT !.pos = IF ok THEN sub_vec(@, facing_vec(det.face)) ELSE @,
                        !.bck = IF ok THEN "ok" ELSE "failed",
                        !.pc = IF det.rotations > 0 THEN "turn_left" ELSE "persist"]

\* for _ in range(rotations): await sess.turn_left()
DetTurnLeft ==
  /\ det.pc = "turn_left"
  /\ turn_left_db(TRUE)
  /\ det' = [det EXCEPT !.face = (@ - 1) % 4, !.lefts = @ + 1,
                        !.pc = IF det.lefts + 1 < det.rotations THEN "turn_left" ELSE "persist"]

\* The end of _detect_real_state: heading_val from the two GPS readings,
\* then one set_state with what was detected.
DetPersist ==
  /\ det.pc = "persist"
  /\ LET heading_val ==
           IF det.bck # "none" /\ det.loc2 # Null
           THEN probe_heading(det.loc2[1] - det.coords_tuple[1],
                              det.loc2[3] - det.coords_tuple[3], det.rotations)
           ELSE Null
         updates == [NoPatch EXCEPT !.fuel_level = det.fuel_int,
                                    !.coords = det.coords_tuple,
                                    !.heading = heading_val]
     IN /\ IF updates # NoPatch THEN set_state(updates) ELSE NoWrite
        /\ det' = [det EXCEPT !.heading_val = heading_val, !.pc = "done"]

DetNext ==
  \/ DetOnly /\ initialize_state
  \/ DetOnly /\ DetOnConnect
  \/ DetOnly /\ DetSeen
  \/ DetOnly /\ \E ok \in BOOLEAN : DetFuel(ok)
  \/ DetOnly /\ \E ok \in BOOLEAN : DetGps(ok)
  \/ DetOnly /\ \E i \in {"inv1", "inv2"} : DetInventory(i)
  \/ DetOnly /\ \E l \in Opt({"label2"}) : DetLabel(l)
  \/ DetOnly /\ DetInspect
  \/ DetOnly /\ DetTurnRight
  \/ DetOnly /\ \E ok \in BOOLEAN : DetForward(ok)
  \/ DetOnly /\ \E ok \in BOOLEAN : DetGps2(ok)
  \/ DetOnly /\ \E ok \in BOOLEAN : DetBack(ok)
  \/ DetOnly /\ DetTurnLeft
  \/ DetOnly /\ DetPersist

SpecDetect == DetInit /\ [][DetNext]_vars

\* ------------------------------------------------- app.py: run / continue
\* A Python value of a config: its type and, by its text, which value.
PyNone == [type |-> "NoneType", v |-> ""]
PyDict(s) == [type |-> "dict", v |-> s]
PyStr(s)  == [type |-> "str", v |-> s]
PyInt(s)  == [type |-> "int", v |-> s]

\* The "config" of a request body: absent, a mapping, or a string (YAML of a
\* mapping, YAML of an integer, YAML of a quoted string, text that neither
\* YAML nor JSON accepts, blanks).
Configs == {PyNone, PyDict("a: 1"), PyStr("a: 1"), PyStr("42"), PyStr("'42'"),
            PyStr("{bad"), PyStr(" ")}

\* str.strip()
strip(txt) == IF txt = " " THEN "" ELSE txt

\* yaml.safe_load(txt) raises.
yaml_raises(txt) == txt = "{bad"

\* yaml.safe_load(txt) where it does not raise.
safe_load(txt) ==
  CASE txt = "a: 1"  -> PyDict("a: 1")
    [] txt = "42"    -> PyInt("42")
    [] txt = "'42'"  -> PyStr("42")
    [] OTHER         -> PyNone

\* json.loads(txt) raises: of the texts that yaml.safe_load refuses, all.
json_raises(txt) == txt = "{bad"

\* json.loads(txt) where it does not raise.
json_loads(txt) == PyNone

\* run_routine's parse of body["config"]: a dict is taken as it is, a
\* non-blank string goes to YAML, then to JSON, then stays raw text, and
\* anything else becomes None.
parse_config(cfg_raw) ==
  IF cfg_raw.type = "dict" THEN cfg_raw
  ELSE IF cfg_raw.type = "str"
       THEN LET txt == strip(cfg_raw.v) IN
            IF txt # ""
            THEN IF ~yaml_raises(txt) THEN safe_load(txt)
                 ELSE IF ~json_raises(txt) THEN json_loads(txt)
                 ELSE PyStr(txt)
            ELSE PyNone
       ELSE PyNone

\* The bodies of POST /turtles/{id}/run.
RunBodies == [routine : routine_registry \cup {"unknown"}, config : Configs]

\* Task.cancel() on a task of app.tasks: a task that has not started never
\* runs, a running one gets the CancelledError at its suspension point.
app_cancel(task) ==
  [task EXCEPT !.state = IF @ = "created" THEN "done"
                         ELSE IF @ = "running" THEN "cancelling" ELSE @]

\* app.tasks after running_tasks[tid].cancel(), called if the task is there
\* and not done.
app_cancel_running ==
  IF app.running_tasks # 0
  THEN [app.tasks EXCEPT ![app.running_tasks] = app_cancel(@)]
  ELSE app.tasks

\* POST /turtles/{id}/run with this body: 404 for an unknown routine or a
\* turtle that is not connected; otherwise the previous task is cancelled,
\* the assignment is replaced and the _runner task is created with the parsed
\* config.
run_routine(body) ==
  IF body.routine \notin routine_registry \/ ~app.connected
  THEN /\ resp' = [op |-> "http", val |-> 404]
       /\ app' = app
  ELSE LET cfg_parsed == parse_config(body.config) IN
       /\ resp' = [op |-> "http", val |-> 200]
       /\ app' = [app EXCEPT
            !.tasks = Append(app_cancel_running,
                             [routine |-> body.routine, config |-> cfg_parsed,
                              state |-> "created"]),
            !.running_tasks = Len(app.tasks) + 1,
            !.assignments = <<[routine |-> body.routine, status |-> "running",
                               config |-> cfg_parsed]>>]

\* POST /turtles/{id}/run
RunRoutine(body) ==
  /\ app.pc = "serving"
  /\ Len(app.tasks) < MaxRuns
  /\ run_routine(body)

\* POST /turtles/{id}/continue: 404 when no assignment is recorded,
\* otherwise run_routine with the recorded routine and config as the body.
continue_routine ==
  /\ app.pc = "serving"
  /\ Len(app.tasks) < MaxRuns
  /\ IF app.assignments = Null
     THEN /\ resp' = [op |-> "http", val |-> 404]
          /\ app' = app
     ELSE LET last == app.assignments[1] IN
          run_routine([routine |-> last.routine, config |-> last.config])

\* The first step of a _runner task.
AppTaskStart(i) ==
  /\ app.pc = "serving"
  /\ i \in DOMAIN app.tasks
  /\ app.tasks[i].state = "created"
  /\ app' = [app EXCEPT !.tasks[i].state = "running"]
  /\ resp' = NoResp

\* The end of a _runner task: the status it writes on assignments[tid].
AppTaskEnd(i, status) ==
  /\ app.pc = "serving"
  /\ i \in DOMAIN app.tasks
  /\ \/ app.tasks[i].state = "running" /\ status \in {"finished", "failed"}
     \/ app.tasks[i].state = "cancelling" /\ status = "paused"
  /\ app' = [app EXCEPT !.tasks[i].state = "done",
                        !.assignments = <<[app.assignments[1] EXCEPT !.status = status]>>]
  /\ resp' = NoResp

\* app.py's on_connect callback, as far as run_routine sees it:
\* server.get_turtle(tid) is there and alive.
AppConnect ==
  /\ app.pc = "serving"
  /\ ~app.connected
  /\ app' = [app EXCEPT !.connected = TRUE]
  /\ resp' = NoResp

\* app.py's on_disconnect callback: the running task is cancelled and the
\* assignment, if there is one, is marked "disconnected".
AppDisconnect ==
  /\ app.pc = "serving"
  /\ app.connected
  /\ app' = [app EXCEPT
       !.connected = FALSE,
       !.tasks = app_cancel_running,
       !.assignments = IF @ = Null THEN Null
                       ELSE <<[@[1] EXCEPT !.status = "disconnected"]>>]
  /\ resp' = NoResp

AppInit ==
  /\ GatewayIdle
  /\ connection_status = "none"
  /\ resp = NoResp
  /\ turtles = NoRow
  /\ StoreIdle
  /\ vein = NotCalled
  /\ dig = NotCalled
  /\ inv = NotCalled
  /\ det = NotCalled
  /\ prim = NotCalled
  /\ bus = NotCalled
  /\ mtc = NotCalled
  /\ dump = NotCalled
  /\ calc = NotCalled
  /\ app = [pc |-> "serving", connected |-> FALSE, assignments |-> Null,
            running_tasks |-> 0, tasks |-> <<>>]

AppOnly == UNCHANGED <<gatewayVars, connection_status, storeVars, vein, dig, inv, det, prim, bus, mtc, dump, calc>>

AppNext ==
  \/ AppOnly /\ \E body \in RunBodies : RunRoutine(body)
  \/ AppOnly /\ continue_routine
  \/ AppOnly /\ \E i \in 1..MaxRuns : AppTaskStart(i)
  \/ AppOnly /\ \E i \in 1..MaxRuns, status \in {"finished", "failed", "paused"} : AppTaskEnd(i, status)
  \/ AppOnly /\ AppConnect
  \/ AppOnly /\ AppDisconnect

SpecApp == AppInit /\ [][AppNext]_vars

\* ------------------------------------------------- Turtle._Session primitives
\* Python values of a reply: bool, list, tuple, dict and number carry their
\* content in v.
PyBool(b)  == [type |-> "bool", v |-> b]
PyNum(n)   == [type |-> "int", v |-> n]
PyList(s)  == [type |-> "list", v |-> s]
PyTuple(s) == [type |-> "tuple", v |-> s]
PyMap(kv)  == [type |-> "dict", v |-> kv]

\* bool(v)
truthy(v) ==
  CASE v.type = "bool"     -> v.v
    [] v.type = "NoneType" -> FALSE
    [] v.type = "int"      -> v.v # 0
    [] v.type = "str"      -> v.v # ""
    [] v.type \in {"list", "tuple"} -> Len(v.v) > 0
    [] v.type = "dict"     -> DOMAIN v.v # {}

\* What a call returns to the routine, or the exception it raises into it.
Return(v) == [kind |-> "return", val |-> v]
Raise(e)  == [kind |-> "raise", val |-> PyStr(e)]

\* The dicts _send returns without a reply: the turtle is not alive or the
\* future got the exception of the inbox (str(e)), and wait_for timed out.
SendDisconnected == [ok |-> PyBool(FALSE), error |-> PyStr("turtle disconnected")]
SendTimedOut     == [ok |-> PyBool(FALSE), error |-> PyStr("timeout")]

\* A reply frame of the turtle with its value.
ReplyOk(v) == [ok |-> PyBool(TRUE), value |-> v]

\* The values of a reply: what the turtle API gives for a move, a dig or a
\* place (true, false, [true], [false, reason], nothing), a fuel level, a
\* label, a GPS fix, a failed GPS query, and the tables of inspect for a
\* block and for no block.
Values ==
  {PyBool(TRUE), PyBool(FALSE), PyNone,
   PyList(<<PyBool(TRUE)>>),
   PyList(<<PyBool(FALSE), PyStr("Movement obstructed")>>),
   PyList(<<>>),
   PyNum(0), PyNum(MaxFuel), PyStr("miner"),
   PyList(<<PyNum(MaxCoord), PyNum(0), PyNum(0)>>),
   PyList(<<PyNone, PyNone, PyNone>>),
   PyMap([ok |-> PyBool(TRUE),
          data |-> PyMap([name |-> PyStr("minecraft:iron_ore"),
                          tags |-> PyMap([t \in {"c:ores"} |-> PyBool(TRUE)])])]),
   PyMap([ok |-> PyBool(FALSE), data |-> PyStr("No block to inspect")])}

\* What _send can return: no reply, a reply that reports a failure, a reply
\* without the key ok, and a reply with a value.
Resps ==
  {SendDisconnected, SendTimedOut,
   [ok |-> PyBool(FALSE), error |-> PyStr("attempt to call nil")],
   [value |-> PyBool(TRUE)]}
  \cup {ReplyOk(v) : v \in Values}

\* The outcomes of _send in which the command has failed: the reply says
\* ok=false, the wait timed out, the turtle is disconnected.
Failures == {r \in Resps : "ok" \in DOMAIN r /\ ~r.ok.v}

\* Session.send_command: bool(resp.get("ok"))
send_command(rsp) == truthy(Get(rsp, "ok", PyNone))

\* Session.eval: False unless the reply is ok, else resp.get("value")
eval(rsp) ==
  IF ~truthy(Get(rsp, "ok", PyNone)) THEN PyBool(FALSE)
  ELSE Get(rsp, "value", PyNone)

\* forward, back, up, down, dig, place, refuel: the first element of a
\* non-empty list, else the value itself, as a bool.
move_success(res) ==
  IF res.type = "list" /\ Len(res.v) >= 1
  THEN truthy(res.v[1])
  ELSE truthy(res)

\* The tags _evaluate_inspect_return looks for.
InspectTags == {"c:ores", "minecraft:mineable/pickaxe"}

\* _evaluate_inspect_return(res): res.get and raw_data.get exist on a dict
\* only (AttributeError otherwise); (False, None) unless ok and data are
\* truthy, else (True, result) with the name and the tags found.
evaluate_inspect_return(res) ==
  IF res.type # "dict" THEN Raise("AttributeError")
  ELSE IF ~truthy(Get(res.v, "ok", PyNone))
       THEN Return(PyTuple(<<PyBool(FALSE), PyNone>>))
  ELSE LET raw_data == Get(res.v, "data", PyNone) IN
       IF ~truthy(raw_data) THEN Return(PyTuple(<<PyBool(FALSE), PyNone>>))
       ELSE IF raw_data.type # "dict" THEN Raise("AttributeError")
       ELSE LET raw_tags == Get(raw_data.v, "tags", PyMap(<<>>)) IN
            Return(PyTuple(<<PyBool(TRUE),
              PyMap([k \in {"name"} \cup InspectTags |->
                       IF k = "name" THEN Get(raw_data.v, "name", PyStr("unknown"))
                       ELSE PyBool(k \in DOMAIN raw_tags.v)])>>))

\* isinstance(v, (int, float)): a bool is an int.
is_number(v) == v.type \in {"int", "bool"}

\* int(v) of a number
to_int(v) == IF v.type = "bool" THEN (IF v.v THEN 1 ELSE 0) ELSE v.v

\* _apply_location(loc): a list of at least three numbers is stored as the
\* coords, anything else is logged.
apply_location(loc) ==
  IF /\ loc.type = "list"
     /\ Len(loc.v) >= 3
     /\ \A i \in 1..3 : is_number(loc.v[i])
  THEN set_state([NoPatch EXCEPT
         !.coords = <<to_int(loc.v[1]), to_int(loc.v[2]), to_int(loc.v[3])>>])
  ELSE NoWrite

\* _apply_refuel with what get_fuel_level returned.
apply_refuel(current_fuel) ==
  IF is_number(current_fuel)
  THEN set_state([NoPatch EXCEPT !.fuel_level = <<to_int(current_fuel)>>])
  ELSE NoWrite

\* The call is over: what _send returned to it and what it gave the routine.
PrimDone(name, rsp, out) ==
  prim' = [pc |-> "done", name |-> name, resp |-> rsp, out |-> out]

\* forward, back, up, down with the outcome rsp of their _send.
PrimForward(rsp) ==
  /\ prim.pc = "ready"
  /\ forward(move_success(eval(rsp)))
  /\ PrimDone("forward", rsp, Return(PyBool(move_success(eval(rsp)))))

PrimBack(rsp) ==
  /\ prim.pc = "ready"
  /\ back(move_success(eval(rsp)))
  /\ PrimDone("back", rsp, Return(PyBool(move_success(eval(rsp)))))

PrimUp(rsp) ==
  /\ prim.pc = "ready"
  /\ up(move_success(eval(rsp)))
  /\ PrimDone("up", rsp, Return(PyBool(move_success(eval(rsp)))))

PrimDown(rsp) ==
  /\ prim.pc = "ready"
  /\ down(move_success(eval(rsp)))
  /\ PrimDone("down", rsp, Return(PyBool(move_success(eval(rsp)))))

\* turn_left, turn_right: the TypeError of _apply_heading on a row without
\* heading goes to the routine.
PrimTurnLeft(rsp) ==
  /\ prim.pc = "ready"
  /\ turn_left(send_command(rsp))
  /\ PrimDone("turn_left", rsp,
              IF send_command(rsp) /\ get_state.heading = Null
              THEN Raise("TypeError") ELSE Return(PyBool(send_command(rsp))))

PrimTurnRight(rsp) ==
  /\ prim.pc = "ready"
  /\ turn_right(send_command(rsp))
  /\ PrimDone("turn_right", rsp,
              IF send_command(rsp) /\ get_state.heading = Null
              THEN Raise("TypeError") ELSE Return(PyBool(send_command(rsp))))

\* dig, place: nothing is stored.
PrimDigPlace(name, rsp) ==
  /\ prim.pc = "ready"
  /\ NoWrite
  /\ call' = [NoCall EXCEPT !.name = name, !.ok = move_success(eval(rsp))]
  /\ state_updated' = state_updated
  /\ PrimDone(name, rsp, Return(PyBool(move_success(eval(rsp)))))

\* inspect, inspect_up, inspect_down
PrimInspect(name, rsp) ==
  /\ prim.pc = "ready"
  /\ NoWrite
  /\ LET out == evaluate_inspect_return(eval(rsp)) IN
     /\ call' = [NoCall EXCEPT !.name = name, !.ok = (out.kind = "return"),
                               !.raised = (out.kind = "raise")]
     /\ PrimDone(name, rsp, out)
  /\ state_updated' = state_updated

\* get_location: loc goes through _apply_location (which returns at None
\* and catches what it raises) and is returned as it is.
PrimGetLocation(rsp) ==
  /\ prim.pc = "ready"
  /\ writes < MaxWrites
  /\ apply_location(eval(rsp))
  /\ call' = [NoCall EXCEPT !.name = "get_location", !.ok = truthy(eval(rsp))]
  /\ state_updated' = state_updated
  /\ PrimDone("get_location", rsp, Return(eval(rsp)))

\* set_label(l): a truthy value stores the label; the try block turns any
\* exception into False.
PrimSetLabel(l, rsp) ==
  /\ prim.pc = "ready"
  /\ writes < MaxWrites
  /\ IF truthy(eval(rsp))
     THEN set_state([NoPatch EXCEPT !.label = <<l>>])
     ELSE NoWrite
  /\ call' = [NoCall EXCEPT !.name = "set_label", !.ok = truthy(eval(rsp))]
  /\ state_updated' = state_updated
  /\ PrimDone("set_label", rsp, Return(PyBool(truthy(eval(rsp)))))

\* refuel: after a success the fuel level is asked for with a second _send,
\* whose outcome is rsp2, and stored if it is a number.
PrimRefuel(rsp, rsp2) ==
  /\ prim.pc = "ready"
  /\ writes < MaxWrites
  /\ IF move_success(eval(rsp)) THEN apply_refuel(eval(rsp2)) ELSE NoWrite
  /\ call' = [NoCall EXCEPT !.name = "refuel", !.ok = move_success(eval(rsp))]
  /\ state_updated' = state_updated
  /\ PrimDone("refuel", rsp, Return(PyBool(move_success(eval(rsp)))))

\* The list of a reply as get_inventory_details takes it.
raw_inventory(res) ==
  IF res.type = "list" THEN [list |-> TRUE, items |-> res.v]
  ELSE [list |-> FALSE, items |-> <<>>]

\* The replies to get_inventory_details(): one item, an empty slot and an
\* entry that is no table.
InventoryResps ==
  {r \in Resps : eval(r).type # "list"} \cup {ReplyOk(PyList(<<e>>)) : e \in Entries}

\* get_inventory_details with the outcome rsp of its _send.
PrimInventory(rsp) ==
  /\ prim.pc = "ready"
  /\ writes < MaxWrites
  /\ get_inventory_details(raw_inventory(eval(rsp)))
  /\ PrimDone("get_inventory_details", rsp,
              IF inv'.returned = Null THEN Return(PyNone)
              ELSE Return(PyMap(inv'.returned[1])))

\* A session on a connected turtle with a stored position, heading and
\* fuel level, or with some of them missing; one primitive is called.
PrimInit ==
  /\ GatewayIdle
  /\ resp = NoResp
  /\ StoreIdle
  /\ vein = NotCalled
  /\ dig = NotCalled
  /\ app = NotCalled
  /\ det = NotCalled
  /\ bus = NotCalled
  /\ mtc = NotCalled
  /\ dump = NotCalled
  /\ calc = NotCalled
  /\ turtles \in Rows({MaxFuel}, {}, {0}, 0..3, {})
  /\ connection_status = "connected"
  /\ inv = [pc |-> "ready", raw |-> [list |-> FALSE, items |-> <<>>], returned |-> Null]
  /\ prim = [pc |-> "ready"]

PrimOnly == UNCHANGED <<gatewayVars, resp, vein, dig, app, det, bus, mtc, dump, calc>>

PrimNext ==
  \/ PrimOnly /\ inv' = inv /\ \E r \in Resps : PrimForward(r)
  \/ PrimOnly /\ inv' = inv /\ \E r \in Resps : PrimBack(r)
  \/ PrimOnly /\ inv' = inv /\ \E r \in Resps : PrimUp(r)
  \/ PrimOnly /\ inv' = inv /\ \E r \in Resps : PrimDown(r)
  \/ PrimOnly /\ inv' = inv /\ \E r \in Resps : PrimTurnLeft(r)
  \/ PrimOnly /\ inv' = inv /\ \E r \in Resps : PrimTurnRight(r)
  \/ PrimOnly /\ inv' = inv /\ \E name \in {"dig", "place"}, r \in Resps : PrimDigPlace(name, r)
  \/ PrimOnly /\ inv' = inv
       /\ \E name \in {"inspect", "inspect_up", "inspect_down"}, r \in Resps : PrimInspect(name, r)
  \/ PrimOnly /\ inv' = inv /\ \E r \in Resps : PrimGetLocation(r)
  \/ PrimOnly /\ inv' = inv /\ \E r \in Resps : PrimSetLabel("miner", r)
  \/ PrimOnly /\ inv' = inv /\ \E r \in Resps, r2 \in Resps : PrimRefuel(r, r2)
  \/ PrimOnly /\ \E r \in InventoryResps : PrimInventory(r)
  \/ PrimOnly /\ on_database_change /\ UNCHANGED <<inv, prim>>

SpecPrim == PrimInit /\ [][PrimNext]_vars

\* ------------------------------------------------- main.py: publish, /events
\* The websockets that connect to /events in one behaviour.
MaxSubs == 2

\* The log records forwarded to publish in one behaviour.
MaxLogs == 1

Sockets == 1..MaxSubs

\* The terminal events of a routine run.
TerminalEvents == {"routine_finished", "routine_aborted", "routine_failed"}

\* list(event_subscribers), in the iteration order of the set.
RECURSIVE list(_)
list(S) == IF S = {} THEN <<>> ELSE <<Lowest(S)>> \o list(S \ {Lowest(S)})

\* Variant of the removal loop without the except KeyError: removing a
\* subscriber that is no longer in the set raises.
evict_Uncaught(subscribers, dead) ==
  [subs |-> subscribers \ {dead[i] : i \in 1..Len(dead)},
   raised |-> \E i \in 1..Len(dead) : dead[i] \notin subscribers]

\* for ws in dead: event_subscribers.remove(ws), KeyError passed over.
evict(subscribers, dead) ==
  [subs |-> subscribers \ {dead[i] : i \in 1..Len(dead)},
   raised |-> FALSE]

\* asyncio.create_task(publish(event)): the task is appended to the ready
\* queue of the loop (publish task k stands in it as k); its body has not
\* started.
create_task(b, event) ==
  [b EXCEPT !.tasks = Append(@, [ev |-> event, pc |-> "created", snap |-> <<>>,
                                 i |-> 0, res |-> "none", dead |-> <<>>]),
            !.readyq = Append(@, Len(b.tasks) + 1)]

\* The publish tasks suspended in wait_for on a send to websocket w, by
\* the start of their wait.
WaitingOn(w) ==
  SelectSeq(bus.waitq, LAMBDA k : bus.tasks[k].snap[bus.tasks[k].i] = w)

\* The sends of the tasks of q on their websocket are over with result res:
\* the tasks leave the wait queue and are ready again, in their order.
Wake(b, q, res) ==
  LET S == {q[j] : j \in 1..Len(q)} IN
  [b EXCEPT !.tasks = [k \in DOMAIN b.tasks |->
                         IF k \in S THEN [b.tasks[k] EXCEPT !.pc = "ready", !.res = res]
                         ELSE b.tasks[k]],
            !.waitq = SelectSeq(@, LAMBDA k : k \notin S),
            !.readyq = @ \o q]

\* The frames of the tasks of q reach websocket w, in their order.
RECURSIVE Deliver(_, _, _)
Deliver(rcv, w, q) ==
  IF q = <<>> THEN rcv
  ELSE Deliver([rcv EXCEPT ![w] = Append(@, bus.tasks[Head(q)].ev)], w, Tail(q))

\* GET /events: the websocket is accepted and added to event_subscribers.
events_accept(w) ==
  /\ w \notin bus.seen
  /\ bus' = [bus EXCEPT !.seen = @ \cup {w}, !.subs = @ \cup {w}]

\* The client of w goes away: the sends that wait on w raise, and the
\* /events handler of w, suspended in receive_text, is ready to run (it
\* stands in the ready queue as -w).
SocketGone(w) ==
  /\ w \in bus.seen \ bus.closed
  /\ bus' = [Wake(bus, WaitingOn(w), "raised") EXCEPT
               !.closed = @ \cup {w}, !.slow = @ \ {w},
               !.readyq = Append(@, 0 - w)]

\* The loop runs the /events handler of w: receive_text raises
\* WebSocketDisconnect and the finally block discards w.
events_disconnect(w) ==
  /\ bus.readyq # <<>>
  /\ Head(bus.readyq) = 0 - w
  /\ bus' = [bus EXCEPT !.readyq = Tail(@), !.subs = @ \ {w}]

\* The client of w stops reading: a send to w does not complete.
SocketStall(w) ==
  /\ w \in bus.seen \ (bus.closed \cup bus.slow)
  /\ bus' = [bus EXCEPT !.slow = @ \cup {w}]

\* The client of w reads again: the sends that wait on w complete in
\* their order.
SocketDrain(w) ==
  /\ w \in bus.slow
  /\ bus' = [Wake(bus, WaitingOn(w), "sent") EXCEPT
               !.slow = @ \ {w},
               !.recv = Deliver(@, w, WaitingOn(w))]

\* WebLogHandler.emit: a log record (the "POST /turtles/.../execute" line
\* of execute_routine is one) is handed to a new publish task.
emit ==
  /\ Cardinality({k \in DOMAIN bus.tasks : bus.tasks[k].ev = "log"}) < MaxLogs
  /\ bus' = create_task(bus, "log")

\* First step of _runner: the routine_started task is created and the
\* routine begins.
RunnerStarted ==
  /\ bus.run = "none"
  /\ bus' = [create_task(bus, "routine_started") EXCEPT !.run = "running"]

\* The routine returns, is cancelled or raises: _runner creates the task
\* of the terminal event.
RunnerEnded(event) ==
  /\ bus.run = "running"
  /\ bus' = [create_task(bus, event) EXCEPT !.run = "ended"]

\* The loop runs the first ready publish task k up to its next suspension:
\* the body starts with the snapshot of event_subscribers, or the awaited
\* send is over and a failed one marks its websocket dead; then the next
\* websocket of the snapshot is sent to (a closed one raises, one that
\* does not read or has a frame waiting suspends the task until the
\* deadline, any other takes the frame), or, after the last, the dead are
\* removed and publish returns.
PublishStep ==
  /\ bus.readyq # <<>>
  /\ Head(bus.readyq) > 0
  /\ LET k    == Head(bus.readyq)
         t    == bus.tasks[k]
         snap == IF t.pc = "created" THEN list(bus.subs) ELSE t.snap
         dead == IF t.res \in {"raised", "timeout"}
                 THEN Append(t.dead, t.snap[t.i]) ELSE t.dead
         i    == t.i + 1
         t1   == [t EXCEPT !.snap = snap, !.dead = dead, !.i = i, !.pc = "ready"]
     IN IF i > Len(snap)
        THEN bus' = [bus EXCEPT
                       !.tasks[k] = [t1 EXCEPT !.pc = "done", !.res = "none"],
                       !.readyq = Tail(@),
                       !.subs = evict(bus.subs, dead).subs,
                       !.raised = @ \/ evict(bus.subs, dead).raised]
        ELSE IF snap[i] \in bus.closed
        THEN bus' = [bus EXCEPT
                       !.tasks[k] = [t1 EXCEPT !.res = "raised"],
                       !.readyq = Append(Tail(@), k)]
        ELSE IF snap[i] \in bus.slow \/ WaitingOn(snap[i]) # <<>>
        THEN bus' = [bus EXCEPT
                       !.tasks[k] = [t1 EXCEPT !.pc = "waiting", !.res = "none"],
                       !.readyq = Tail(@),
                       !.waitq = Append(@, k)]
        ELSE bus' = [bus EXCEPT
                       !.tasks[k] = [t1 EXCEPT !.res = "sent"],
                       !.readyq = Append(Tail(@), k),
                       !.recv[snap[i]] = Append(@, t.ev)]

\* The deadline of wait_for (0.2 s) passes for the send that has waited
\* longest: asyncio.TimeoutError in its publish task.
PublishTimeout ==
  /\ bus.waitq # <<>>
  /\ bus' = Wake(bus, <<Head(bus.waitq)>>, "timeout")

BusInit ==
  /\ GatewayIdle
  /\ connection_status = "none"
  /\ resp = NoResp
  /\ turtles = NoRow
  /\ StoreIdle
  /\ vein = NotCalled
  /\ dig = NotCalled
  /\ inv = NotCalled
  /\ app = NotCalled
  /\ det = NotCalled
  /\ prim = NotCalled
  /\ mtc = NotCalled
  /\ dump = NotCalled
  /\ calc = NotCalled
  /\ bus = [subs |-> {}, seen |-> {}, closed |-> {}, slow |-> {},
            tasks |-> <<>>, readyq |-> <<>>, waitq |-> <<>>,
            recv |-> [w \in Sockets |-> <<>>], run |-> "none", raised |-> FALSE]

BusOnly == UNCHANGED <<gatewayVars, connection_status, resp, storeVars,
                       vein, dig, inv, app, det, prim, mtc, dump, calc>>

BusNext ==
  \/ BusOnly /\ \E w \in Sockets : events_accept(w)
  \/ BusOnly /\ \E w \in Sockets : SocketGone(w)
  \/ BusOnly /\ \E w \in Sockets : events_disconnect(w)
  \/ BusOnly /\ \E w \in Sockets : SocketStall(w)
  \/ BusOnly /\ \E w \in Sockets : SocketDrain(w)
  \/ BusOnly /\ emit
  \/ BusOnly /\ RunnerStarted
  \/ BusOnly /\ \E event \in TerminalEvents : RunnerEnded(event)
  \/ BusOnly /\ PublishStep
  \/ BusOnly /\ PublishTimeout

SpecBus == BusInit /\ [][BusNext]_vars

\* --------------------------------------------- subroutines.move_to_coordinate
\* The horizontal coordinates of the model run from 0 to MaxSpan, its heights
\* from stage_y - 1 to stage_y + MaxRise, and step_forward_checked nests at
\* most MaxDepth deep: a move that would leave this box fails.
MaxSpan == 1
MaxRise == 1
MaxDepth == 1

stage_y == 150
min_threshold == 500

abs(n) == IF n < 0 THEN 0 - n ELSE n

\* l1(a, b)
l1(a, b) == abs(a[1] - b[1]) + abs(a[2] - b[2]) + abs(a[3] - b[3])

\* threshold = max(500, 4 * l1((x,y,z), (tx,ty,tz)))
threshold(a, b) == Max(min_threshold, 4 * l1(a, b))

InBox(x, y, z) ==
  /\ x \in 0..MaxSpan /\ z \in 0..MaxSpan
  /\ y \in (stage_y - 1)..(stage_y + MaxRise)

\* position = await turtle.get_location(); without one the call returns.
\* Else the locals are set up: heading from the stored state (0 when none).
MtcStart ==
  /\ mtc.pc = "start"
  /\ \/ mtc' = [mtc EXCEPT !.pc = "done"]
     \/ \E x \in {0}, y \in {stage_y - 1, stage_y}, z \in {0}, h \in {0, 3} :
          mtc' = [mtc EXCEPT !.pc = "s1", !.at = "head",
                             !.x = x, !.y = y, !.z = z, !.heading = h,
                             !.steps = 0,
                             !.threshold = threshold(<<x, y, z>>, <<mtc.tx, mtc.ty, mtc.tz>>)]

\* step_vertical(to_up) with the outcome ok of up() or down().
step_vertical(m, to_up, ok) ==
  IF ok THEN [m EXCEPT !.y = IF to_up THEN @ + 1 ELSE @ - 1, !.steps = @ + 1] ELSE m

\* The outcomes up() or down() can have at height y.
CanGo(m, to_up) ==
  {FALSE} \cup {ok \in {TRUE} : InBox(m.x, IF to_up THEN m.y + 1 ELSE m.y - 1, m.z)}

\* Stage 1: while y < stage_y and steps < threshold.
MtcLift ==
  /\ mtc.pc = "s1"
  /\ IF mtc.y < stage_y /\ mtc.steps < mtc.threshold
     THEN \E ok \in CanGo(mtc, TRUE) :
            mtc' = IF ok THEN step_vertical(mtc, TRUE, ok) ELSE [mtc EXCEPT !.pc = "s2"]
     ELSE mtc' = [mtc EXCEPT !.pc = "s2"]

\* Stages 2 and 3, the head of the loop: face the target along the axis
\* of the stage and call step_forward_checked, or go on to the next stage.
MtcTraverse ==
  /\ mtc.pc \in {"s2", "s3"} /\ mtc.at = "head"
  /\ LET cur_ == IF mtc.pc = "s2" THEN mtc.x ELSE mtc.z
         tgt == IF mtc.pc = "s2" THEN mtc.tx ELSE mtc.tz
         dir_idx == IF mtc.pc = "s2" THEN (IF tgt > cur_ THEN 0 ELSE 2)
                    ELSE (IF tgt > cur_ THEN 1 ELSE 3)
     IN IF cur_ # tgt /\ mtc.steps < mtc.threshold
        THEN mtc' = [mtc EXCEPT !.heading = dir_idx, !.at = "fwd", !.depth = 0]
        ELSE mtc' = [mtc EXCEPT !.pc = IF mtc.pc = "s2" THEN "s3" ELSE "s4u"]

\* step_forward_checked returns r to its caller: the loop of the stage when
\* it is the outermost call, else the call one level up.
sfc_return(m, r) ==
  IF m.depth = 0 THEN [m EXCEPT !.at = IF r THEN "head" ELSE "alt"]
  ELSE [m EXCEPT !.at = "ret", !.r = r]

\* The cell one step ahead of the turtle for heading h.
Ahead(m, h) == <<m.x + dir_vecs[h + 1][1], m.z + dir_vecs[h + 1][3]>>

CanForward(m, h) ==
  {FALSE} \cup {ok \in {TRUE} : InBox(Ahead(m, h)[1], m.y, Ahead(m, h)[2])}

\* step_forward_checked: inspect, dig, clear headroom, forward().
SfcForward ==
  /\ mtc.pc \in {"s2", "s3"} /\ mtc.at = "fwd"
  /\ \E ok \in CanForward(mtc, mtc.heading) :
       mtc' = IF ok
              THEN sfc_return([mtc EXCEPT !.x = Ahead(mtc, mtc.heading)[1],
                                          !.z = Ahead(mtc, mtc.heading)[2],
                                          !.steps = @ + 1], TRUE)
              ELSE [mtc EXCEPT !.at = "byp"]

\* step_forward_checked after a failed forward(): up() and, when it
\* succeeds, the nested call.
SfcBypass ==
  /\ mtc.pc \in {"s2", "s3"} /\ mtc.at = "byp"
  /\ \E ok \in {FALSE} \cup {b \in {TRUE} : mtc.depth < MaxDepth} :
       mtc' = IF ok
              THEN [mtc EXCEPT !.steps = @ + 1, !.depth = @ + 1, !.at = "fwd"]
              ELSE [mtc EXCEPT !.at = "side"]

\* The nested call has returned r: down(), steps += 1, and return True when
\* r is true; else the side-step of this level follows.
SfcResume ==
  /\ mtc.pc \in {"s2", "s3"} /\ mtc.at = "ret"
  /\ LET m == [mtc EXCEPT !.steps = @ + 1, !.depth = @ - 1]
     IN mtc' = IF mtc.r THEN sfc_return(m, TRUE) ELSE [m EXCEPT !.at = "side"]

\* The side-step: turn right, dig, forward(), turn left.
SfcSideStep ==
  /\ mtc.pc \in {"s2", "s3"} /\ mtc.at = "side"
  /\ LET h == (mtc.heading + 1) % 4
     IN \E ok \in CanForward(mtc, h) :
          mtc' = IF ok
                 THEN sfc_return([mtc EXCEPT !.x = Ahead(mtc, h)[1], !.z = Ahead(mtc, h)[2],
                                             !.steps = @ + 1], TRUE)
                 ELSE sfc_return(mtc, FALSE)

\* step_forward_checked returned False to the loop of stage 2 or 3:
\* if not await step_vertical(True): await step_vertical(False)
MtcAltitude ==
  /\ mtc.pc \in {"s2", "s3"} /\ mtc.at = "alt"
  /\ \E up_ok \in CanGo(mtc, TRUE), down_ok \in CanGo(mtc, FALSE) :
       mtc' = [(IF up_ok THEN step_vertical(mtc, TRUE, up_ok)
                ELSE step_vertical(mtc, FALSE, down_ok)) EXCEPT !.at = "head"]

\* Stage 4, first loop: while y < ty and steps < threshold.
MtcAdjustUp ==
  /\ mtc.pc = "s4u"
  /\ IF mtc.y < mtc.ty /\ mtc.steps < mtc.threshold
     THEN \E ok \in CanGo(mtc, TRUE) :
            mtc' = IF ok THEN step_vertical(mtc, TRUE, ok) ELSE [mtc EXCEPT !.pc = "s4d"]
     ELSE mtc' = [mtc EXCEPT !.pc = "s4d"]

\* Stage 4, second loop: while y > ty and steps < threshold.
MtcAdjustDown ==
  /\ mtc.pc = "s4d"
  /\ IF mtc.y > mtc.ty /\ mtc.steps < mtc.threshold
     THEN \E ok \in CanGo(mtc, FALSE) :
            mtc' = IF ok THEN step_vertical(mtc, FALSE, ok) ELSE [mtc EXCEPT !.pc = "done"]
     ELSE mtc' = [mtc EXCEPT !.pc = "done"]

\* The state at the call move_to_coordinate(turtle, tx, ty, tz).
MtcInit ==
  /\ GatewayIdle
  /\ connection_status = "none"
  /\ resp = NoResp
  /\ turtles = NoRow
  /\ StoreIdle
  /\ vein = NotCalled
  /\ dig = NotCalled
  /\ inv = NotCalled
  /\ app = NotCalled
  /\ det = NotCalled
  /\ prim = NotCalled
  /\ bus = NotCalled
  /\ dump = NotCalled
  /\ calc = NotCalled
  /\ \E tx \in 0..MaxSpan, tz \in 0..MaxSpan, ty \in {stage_y - 1, stage_y} :
       mtc = [pc |-> "start", at |-> "head", x |-> 0, y |-> 0, z |-> 0, heading |-> 0,
              tx |-> tx, ty |-> ty, tz |-> tz, steps |-> 0, threshold |-> 0,
              depth |-> 0, r |-> FALSE]

MtcOnly == UNCHANGED <<gatewayVars, resp, connection_status, storeVars, vein, dig, inv, app, det, prim, bus, dump, calc>>

MtcNext ==
  \/ MtcOnly /\ MtcStart
  \/ MtcOnly /\ MtcLift
  \/ MtcOnly /\ MtcTraverse
  \/ MtcOnly /\ SfcForward
  \/ MtcOnly /\ SfcBypass
  \/ MtcOnly /\ SfcResume
  \/ MtcOnly /\ SfcSideStep
  \/ MtcOnly /\ MtcAltitude
  \/ MtcOnly /\ MtcAdjustUp
  \/ MtcOnly /\ MtcAdjustDown

SpecMtc == MtcInit /\ [][MtcNext]_vars

\* The coroutine is run until it returns.
SpecMtcLive == SpecMtc /\ WF_vars(MtcNext)

\* --------------------------------------------- subroutines.dump_to_left_chest
\* The values a caller has for chest_slot.
ChestSlots == {PyNone, PyBool(TRUE), PyStr("x"), PyNum(-1), PyNum(0), PyNum(1), PyNum(2),
               PyNum(NumSlots), PyNum(NumSlots + 1)}

\* The config argument: none, a string, a mapping without or with chest_slot.
DumpConfigs ==
  {PyNone, PyStr("chest_slot: 2"), PyMap(<<>>)} \cup {PyMap([chest_slot |-> v]) : v \in ChestSlots}

\* chest_slot = 1; for a dict config int(config.get("chest_slot", chest_slot))
\* with try/except around it; then max(1, min(16, chest_slot)).
chest_slot_of(config) ==
  LET v == IF config.type = "dict" THEN Get(config.v, "chest_slot", PyNum(1)) ELSE PyNum(1)
      n == IF is_number(v) THEN to_int(v) ELSE 1
  IN Max(1, IF n < NumSlots THEN n ELSE NumSlots)

\* Routine.get_item_count(slot) passes slot on to Session.get_item_count,
\* which takes no argument but self: the call raises TypeError.
get_item_count(slot) == Raise("TypeError")

\* TurtleWrapper binds the subroutine as bound_subroutine(*args): func(self,
\* *args). Called with chest_slot alone, dump_to_left_chest(self, session,
\* config) has no value for config: the call raises TypeError.
bound_subroutine(args) ==
  IF Len(args) = 2 THEN Return(PyNone) ELSE Raise("TypeError")

\* turtle.dump_to_left_chest(chest_slot) in smart_mine_full and
\* mine_full_chunk.
DumpBound ==
  /\ dump.pc = "call" /\ dump.caller = "TurtleWrapper"
  /\ dump' = [dump EXCEPT !.pc = "done", !.out = bound_subroutine(<<dump.arg>>)]

\* dump_fn(self, session, {"chest_slot": chest_slot}) in auto_chunk_miner:
\* the body up to await self.select(chest_slot), whose reply is rsp.
DumpSelect(rsp) ==
  /\ dump.pc = "call" /\ dump.caller = "Routine"
  /\ LET slot == chest_slot_of(dump.arg)
     IN dump' = [dump EXCEPT !.pc = "count", !.chest_slot = slot,
                             !.selected = IF send_command(rsp) THEN slot ELSE @]

\* count = await self.get_item_count(chest_slot), and what follows it: an
\* exception leaves the function, a count that is not positive returns, and
\* with a positive count the turtle would turn left.
DumpCount ==
  /\ dump.pc = "count"
  /\ LET res == get_item_count(dump.chest_slot)
     IN dump' = IF res.kind = "raise"
                THEN [dump EXCEPT !.pc = "done", !.out = res]
                ELSE IF ~truthy(res.val) \/ res.val.v <= 0
                THEN [dump EXCEPT !.pc = "done", !.out = Return(PyNone)]
                ELSE [dump EXCEPT !.pc = "turn", !.lefts = @ + 1]

\* The state at the call, for each of the two kinds of caller.
DumpInit ==
  /\ GatewayIdle
  /\ connection_status = "none"
  /\ resp = NoResp
  /\ turtles = NoRow
  /\ StoreIdle
  /\ vein = NotCalled
  /\ dig = NotCalled
  /\ inv = NotCalled
  /\ app = NotCalled
  /\ det = NotCalled
  /\ prim = NotCalled
  /\ bus = NotCalled
  /\ mtc = NotCalled
  /\ calc = NotCalled
  /\ \E caller \in {"Routine", "TurtleWrapper"}, sel \in {1, 2, NumSlots} :
       \E arg \in (IF caller = "Routine" THEN DumpConfigs ELSE ChestSlots) :
         dump = [pc |-> "call", caller |-> caller, arg |-> arg, chest_slot |-> 1,
                 selected |-> sel, lefts |-> 0, rights |-> 0, ups |-> 0, downs |-> 0,
                 out |-> Return(PyNone)]

DumpOnly == UNCHANGED <<gatewayVars, resp, connection_status, storeVars, vein, dig, inv, app, det, prim, bus, mtc, calc>>

DumpNext ==
  \/ DumpOnly /\ DumpBound
  \/ DumpOnly /\ \E rsp \in Resps : DumpSelect(rsp)
  \/ DumpOnly /\ DumpCount

SpecDump == DumpInit /\ [][DumpNext]_vars

\* ------------------------------------- routine_smart_mine_full.dig_calculation
\* The corners of the configuration have coordinates from 0 to MaxSide - 1.
MaxSide == 4

\* starting_points and points: for start s and index i, both in
\* range(height + width), the point [-s + 2 * i, 3 * s - i], start by start.
points(width, height) ==
  LET n == height + width
  IN [k \in 1..(n * n) |->
        LET s == (k - 1) \div n
            i == (k - 1) % n
        IN <<(-1) * s + 2 * i, 3 * s - i>>]

\* valid_points: the points of the area extended by one block on each side.
valid_points(width, height) ==
  LET InExt(p) == p[1] >= -1 /\ p[1] <= width /\ p[2] >= -1 /\ p[2] <= height
  IN SelectSeq(points(width, height), InExt)

\* One round of the loop over valid_points: the fixed point with its class
\* (1 moved, 2 corner, 3 edge, 4 inside), edge direction and corner
\* direction.
fix_point(p, width, height) ==
  LET x0 == 0
      y0 == 0
      x1 == width - 1
      y1 == height - 1
  IN IF p[1] < x0 THEN [point |-> <<p[1] + 1, p[2]>>, class |-> 1, edge |-> 4, corner |-> 0]
     ELSE IF p[2] < y0 THEN [point |-> <<p[1], p[2] + 1>>, class |-> 1, edge |-> 3, corner |-> 0]
     ELSE IF p[1] > x1 THEN [point |-> <<p[1] - 1, p[2]>>, class |-> 1, edge |-> 2, corner |-> 0]
     ELSE IF p[2] > y1 THEN [point |-> <<p[1], p[2] - 1>>, class |-> 1, edge |-> 1, corner |-> 0]
     ELSE IF p[1] = x0 \/ p[1] = x1
          THEN IF p[2] = y0 \/ p[2] = y1
               THEN [point |-> p, class |-> 2, edge |-> 0,
                     corner |-> IF p[1] = x0 /\ p[2] = y0 THEN 1
                                ELSE IF p[1] = x0 /\ p[2] = y1 THEN 2
                                ELSE IF p[1] = x1 /\ p[2] = y1 THEN 3
                                ELSE 4]
               ELSE [point |-> p, class |-> 3, edge |-> IF p[1] = x0 THEN 4 ELSE 2, corner |-> 0]
     ELSE IF p[2] = y0 \/ p[2] = y1
          THEN [point |-> p, class |-> 3, edge |-> IF p[2] = y0 THEN 3 ELSE 1, corner |-> 0]
     ELSE [point |-> p, class |-> 4, edge |-> 0, corner |-> 0]

\* dig_calculation(start_x, start_z, width, height): the fixed points moved
\* by the start corner, each with its class and directions.
dig_calculation(start_x, start_z, width, height) ==
  LET v == valid_points(width, height)
  IN [k \in 1..Len(v) |->
        LET f == fix_point(v[k], width, height)
        IN [f EXCEPT !.point = <<f.point[1] + start_x, f.point[2] + start_z>>]]

\* smart_mine_full_routine up to the chute loop: the corners of the
\* configuration give the bottom left corner, width and height, and
\* dig_calculation the chutes.
SmartMineSetup ==
  /\ calc.pc = "setup"
  /\ LET bl == <<IF calc.corner_1[1] < calc.corner_2[1] THEN calc.corner_1[1] ELSE calc.corner_2[1],
                 IF calc.corner_1[2] < calc.corner_2[2] THEN calc.corner_1[2] ELSE calc.corner_2[2]>>
         tr == <<Max(calc.corner_1[1], calc.corner_2[1]), Max(calc.corner_1[2], calc.corner_2[2])>>
         width == tr[1] - bl[1] + 1
         height == tr[2] - bl[2] + 1
     IN calc' = [calc EXCEPT !.pc = "chutes",
                             !.bottom_left_corner = bl,
                             !.width = width, !.height = height,
                             !.fixed_points = dig_calculation(bl[1], bl[2], width, height),
                             !.i_chute = 0, !.top_or_bottom = 1]

\* One round of for i_chute in range(len(fixed_points)): the turtle digs to
\* the anchor, at start_y or stop_y, digs the chute and flips top_or_bottom.
SmartMineChute ==
  /\ calc.pc = "chutes"
  /\ calc.i_chute < Len(calc.fixed_points)
  /\ calc' = [calc EXCEPT !.i_chute = @ + 1,
                          !.chute = calc.fixed_points[calc.i_chute + 1].point,
                          !.top_or_bottom = IF @ = 1 THEN 2 ELSE 1]

\* The loop is over: "Full rectangle mining completed".
SmartMineDone ==
  /\ calc.pc = "chutes"
  /\ calc.i_chute = Len(calc.fixed_points)
  /\ calc' = [calc EXCEPT !.pc = "done"]

\* The state at the call, with the corners of the configuration.
CalcInit ==
  /\ GatewayIdle
  /\ connection_status = "none"
  /\ resp = NoResp
  /\ turtles = NoRow
  /\ StoreIdle
  /\ vein = NotCalled
  /\ dig = NotCalled
  /\ inv = NotCalled
  /\ app = NotCalled
  /\ det = NotCalled
  /\ prim = NotCalled
  /\ bus = NotCalled
  /\ mtc = NotCalled
  /\ dump = NotCalled
  /\ \E c1, c2 \in (0..(MaxSide - 1)) \X (0..(MaxSide - 1)) :
       calc = [pc |-> "setup", corner_1 |-> c1, corner_2 |-> c2,
               bottom_left_corner |-> <<0, 0>>, width |-> 0, height |-> 0,
               fixed_points |-> <<>>, i_chute |-> 0, top_or_bottom |-> 1, chute |-> <<0, 0>>]

CalcOnly == UNCHANGED <<gatewayVars, resp, connection_status, storeVars, vein, dig, inv, app, det, prim, bus, mtc, dump>>

CalcNext ==
  \/ CalcOnly /\ SmartMineSetup
  \/ CalcOnly /\ SmartMineChute
  \/ CalcOnly /\ SmartMineDone

SpecCalc == CalcInit /\ [][CalcNext]_vars

\* ------------------------------------------------- properties
\* The terminal routine_* events handed to publish for run r.
Terminal(r) == SelectSeq(published[r], LAMBDA e : e # "started")

\* C1: on every turtle at most one task is inside a session at any time,
\* and the lock is held while a task is inside: a task that reaches the
\* session while another one holds it stays suspended until the holder
\* has left.
C1_OneSessionPerTurtle ==
  \A c \in Conns : /\ Cardinality(Holders(c)) <= 1
                   /\ Holders(c) # {} => locked[c]

\* A routine holds the session of a turtle while another routine waits
\* for it.
C1_Witness ==
  \E t \in Runs, u \in Runs :
     /\ t # u /\ tconn[t] = tconn[u]
     /\ InSession(t) /\ pc[u] = "waitlock"

\* C2: every accepted start has, once its task has ended, exactly one
\* terminal event (routine_finished, routine_aborted or routine_failed):
\* never none, never two.
C2_ExactlyOneTerminalEvent ==
  \A r \in Runs : Done(r) => Len(Terminal(r)) = 1

\* C3: as long as the task of the latest accepted start has not ended (and
\* no disconnect handling has marked the assignment), the assignment status
\* is "running", also when that start pre-empted an earlier routine.
C3_RunningUntilOwnTaskEnds ==
  (/\ running_tasks # 0
   /\ ~Done(running_tasks)
   /\ \A c \in Conns : handler[c] # "done")
  => assignments.status = "running"

\* C4: a routine for which POST /abort answered aborted=true ends with
\* routine_aborted published for it.
C4_AbortedAfterAbortTrue ==
  \A r \in abortTrue : Done(r) => Terminal(r) = <<"aborted">>

\* C5: a routine was awaiting a reply when its socket closed; once the
\* disconnect handling and the task have both completed, the assignment
\* status is "disconnected".
C5_DisconnectedAfterClose ==
  \A r \in atClose :
     (running_tasks = r /\ Done(r) /\ handler[tconn[r]] = "done")
     => assignments.status = "disconnected"

\* C6: a routine that had a command in flight when its socket dropped
\* ends with routine_aborted, not routine_finished or routine_failed.
C6_AbortedAfterDrop ==
  \A r \in atClose : Done(r) => Terminal(r) = <<"aborted">>

\* C7: once the inbox of a connection has ended, the turtle is not alive,
\* its pending map is empty and no future of a request sent on it is still
\* uncompleted; a sender that has got the disconnection failure of a
\* request finds the request id absent from the pending map.
C7_ClosedFailsPending ==
  /\ \A c \in Conns : inbox[c] = "done" => ~alive[c] /\ pending[c] = {}
  /\ \A q \in ReqIds : (wire[q] # 0 /\ inbox[wire[q]] = "done") => fut[q] # "pending"
  /\ \A t \in Tasks : result[t] = "disconnected" => req[t] \notin pending[tconn[t]]

\* A routine has got the disconnection failure of the command that was in
\* flight when the socket closed.
C7_Witness ==
  \E r \in atClose : result[r] = "disconnected" /\ sock[tconn[r]] = "closed"

C9_SendOnDeadTurtle ==
  [][\A c \in Conns : ~alive[c] =>
        /\ pending'[c] \subseteq pending[c]
        /\ \A q \in ReqIds : wire'[q] = c => wire[q] = c
        /\ \A t \in Tasks : (tconn[t] = c /\ cur = t /\ pc[t] = "body" /\ pc'[t] = "body")
                            => result'[t] = "dead" /\ fut' = fut]_vars

\* A routine has been handed the disconnection error by _send on a turtle
\* that is not alive.
C9_Witness ==
  \E r \in Runs : pc[r] = "body" /\ result[r] = "dead" /\ ~alive[tconn[r]]

\* C10: a request that ended at the reply deadline is not in the pending
\* map and its sender holds the timeout error; a reply that arrives for it
\* afterwards changes no future but its own record, no pending map, no
\* result and no task.
C10_TimeoutUnregisters ==
  /\ [](/\ \A q \in ReqIds : fut[q] \in {"timeout", "late"} => q \notin pending[wire[q]]
        /\ \A t \in Tasks : result[t] = "timeout"
                            => /\ req[t] \notin pending[tconn[t]]
                               /\ fut[req[t]] \in {"timeout", "late"})
  /\ [][\A q \in ReqIds : (fut[q] = "timeout" /\ fut'[q] = "late")
                          => /\ \A p \in ReqIds \ {q} : fut'[p] = fut[p]
                             /\ UNCHANGED <<pending, result, pc, cancelReq, cur>>]_vars

\* A reply has arrived, on a turtle that is still alive, for a request
\* that had ended at the deadline.
C10_Witness ==
  \E q \in ReqIds : fut[q] = "late" /\ wire[q] # 0 /\ alive[wire[q]]

\* C11: a future is completed with a reply only by the dispatch of a frame
\* that carries its own request id, and only while it is registered and
\* uncompleted (so at most once); _send returns a reply only from the
\* future of the id it allocated; the dispatch of a frame touches no future
\* and no pending entry but those of the frame's id, and a frame whose id
\* is not registered changes no pending map, no result and no task.
C11_ReplyCorrelation ==
  [][/\ \A q \in ReqIds :
          (fut[q] # "result" /\ fut'[q] = "result")
          => /\ resp' = [op |-> "frame", val |-> q]
             /\ fut[q] = "pending"
             /\ q \in pending[wire[q]]
     /\ \A t \in Tasks :
          (pc[t] = "await" /\ result'[t] = "reply") => fut[req[t]] = "result"
     /\ \A q \in ReqIds :
          resp' = [op |-> "frame", val |-> q]
          => /\ \A p \in ReqIds \ {q} : fut'[p] = fut[p]
             /\ \A c \in Conns : pending'[c] = pending[c] \ {q}
             /\ q \notin pending[wire[q]]
                => UNCHANGED <<pending, result, pc, cancelReq, cur>>]_vars

\* A frame whose id is no longer registered has just been dropped while
\* another request of the same turtle was outstanding.
C11_Witness ==
  /\ resp.op = "frame"
  /\ fut[resp.val] = "late"
  /\ \E p \in ReqIds \ {resp.val} :
        /\ fut[p] = "pending"
        /\ wire[p] = wire[resp.val]
        /\ p \in pending[wire[p]]

\* C12 as stated: a successful forward with stored heading h in 0..3 and a
\* stored position moves the stored position by (+1,0,0), (0,0,+1),
\* (-1,0,0), (0,0,-1) for h = 0, 1, 2, 3 and lowers a known stored fuel
\* level by exactly 1.
C12_ForwardBurnsExactlyOne ==
  [][(/\ call'.name = "forward" /\ call'.ok
      /\ get_state.heading \in {<<0>>, <<1>>, <<2>>, <<3>>}
      /\ get_state.coords # Null)
     => LET d == <<<<1, 0, 0>>, <<0, 0, 1>>, <<-1, 0, 0>>, <<0, 0, -1>>>>[get_state.heading[1] + 1]
            c == get_state.coords
        IN /\ get_state'.coords = <<c[1] + d[1], c[2] + d[2], c[3] + d[3]>>
           /\ get_state.fuel_level # Null
              => get_state'.fuel_level = <<get_state.fuel_level[1] - 1>>]_vars

\* C12, amended: the position moves as stated; a known stored fuel level
\* is lowered by 1 when it is positive and stays 0 when it is 0; an unknown
\* fuel level stays unknown.
C12_ForwardBurnsOneDownToZero ==
  [][(/\ call'.name = "forward" /\ call'.ok
      /\ get_state.heading \in {<<0>>, <<1>>, <<2>>, <<3>>}
      /\ get_state.coords # Null)
     => LET d == <<<<1, 0, 0>>, <<0, 0, 1>>, <<-1, 0, 0>>, <<0, 0, -1>>>>[get_state.heading[1] + 1]
            c == get_state.coords
            f == get_state.fuel_level
        IN /\ get_state'.coords = <<c[1] + d[1], c[2] + d[2], c[3] + d[3]>>
           /\ get_state'.fuel_level =
                IF f = Null THEN Null
                ELSE IF f[1] > 0 THEN <<f[1] - 1>> ELSE <<0>>]_vars

\* A successful forward has moved the turtle out of the range of initial
\* positions and left the stored fuel level at 0.
C12_Witness ==
  /\ call.name = "forward" /\ call.ok
  /\ writes >= 1
  /\ turtles.fuel_level = <<0>>
  /\ turtles.x = <<MaxCoord + 1>>

\* C13: a successful turn_left on a stored heading h stores (h + 3) mod 4
\* and a successful turn_right stores (h + 1) mod 4; no turn changes the
\* stored position or fuel level; the stored heading, when present, is
\* always in 0..3.
C13_TurnsModFour ==
  /\ [](turtles.heading # Null => turtles.heading[1] \in 0..3)
  /\ [][/\ (call'.name = "turn_left" /\ call'.ok /\ turtles.heading # Null)
           => turtles'.heading = <<(turtles.heading[1] + 3) % 4>>
        /\ (call'.name = "turn_right" /\ call'.ok /\ turtles.heading # Null)
           => turtles'.heading = <<(turtles.heading[1] + 1) % 4>>
        /\ call'.name \in {"turn_left", "turn_right"}
           => /\ get_state'.coords = get_state.coords
              /\ get_state'.fuel_level = get_state.fuel_level]_vars

\* A successful turn_left has taken the stored heading from 0 to 3 after
\* an earlier move.
C13_Witness ==
  /\ call.name = "turn_left" /\ call.ok
  /\ writes = MaxWrites
  /\ turtles.heading = <<3>>

\* C14: set_state on an existing row leaves every column whose argument
\* is absent (fuel_level, inventory, coords, heading, connection_status,
\* label) as it was, and x, y, z are either all three taken from the
\* coords argument or all three left as they were.
C14_AbsentFieldsKept ==
  [][(call'.name = "set_state" /\ Exists)
     => LET p == call'.patch
        IN /\ p.fuel_level = Null => turtles'.fuel_level = turtles.fuel_level
           /\ p.inventory = Null => turtles'.inventory = turtles.inventory
           /\ p.heading = Null => turtles'.heading = turtles.heading
           /\ p.label = Null => turtles'.label = turtles.label
           /\ p.connection_status = Null => connection_status' = connection_status
           /\ p.coords = Null
              => <<turtles'.x, turtles'.y, turtles'.z>> = <<turtles.x, turtles.y, turtles.z>>
           /\ p.coords # Null
              => <<turtles'.x, turtles'.y, turtles'.z>>
                   = <<<<p.coords[1]>>, <<p.coords[2]>>, <<p.coords[3]>>>>]_vars

\* set_state with coords and without label, fuel_level and heading has
\* replaced the position of an existing row and kept its other columns.
C14_Witness ==
  /\ call.name = "set_state"
  /\ call.patch.coords # Null
  /\ call.patch.label = Null /\ call.patch.fuel_level = Null /\ call.patch.heading = Null
  /\ turtles.label = <<"label1">> /\ turtles.fuel_level = <<0>> /\ turtles.heading = <<0>>
  /\ <<turtles.x, turtles.y, turtles.z>> = <<<<MaxCoord>>, <<0>>, <<-MaxCoord>>>>

\* C15: every upsert_seen, set_state and set_name_label call commits one
\* write and schedules one notification; every committed write has exactly
\* one notification, either still scheduled or published as state_updated;
\* the summary of a published event is read no earlier than the write that
\* caused it; and every committed write is eventually published.
C15_OnePublicationPerWrite ==
  /\ [](/\ \A k \in 1..writes :
             Cardinality({i \in DOMAIN notifyQ : notifyQ[i] = k})
               + Cardinality({i \in DOMAIN state_updated : state_updated[i].cause = k}) = 1
        /\ Len(notifyQ) + Len(state_updated) = writes
        /\ \A i \in DOMAIN state_updated : state_updated[i].seen >= state_updated[i].cause)
  /\ [][call'.name \in {"set_state", "upsert_seen", "set_name_label"}
        => /\ writes' = writes + 1
           /\ notifyQ' = Append(notifyQ, writes')
           /\ state_updated' = state_updated]_vars
  /\ \A k \in 1..MaxWrites :
       (writes >= k) ~> (\E i \in DOMAIN state_updated : state_updated[i].cause = k)

\* Two writes were committed before the first notification ran: its event
\* carries a summary newer than the write that caused it, and the second
\* write has its own event.
C15_Witness ==
  /\ Len(state_updated) = MaxWrites
  /\ state_updated[1].cause = 1 /\ state_updated[1].seen = MaxWrites
  /\ state_updated[MaxWrites].cause = MaxWrites

\* C16: mine_ore_vein returns; the moves and digs it has made, each counted
\* as one action, never number more than max_actions; when it has returned
\* the turtle is at start_pos, reachable over mined, and faces
\* start_dir_idx.
C16_VeinWithinBudget ==
  /\ <>(vein.pc = "done")
  /\ [](vein.moves + vein.digs <= vein.max_actions)
  /\ [](vein.pc = "done" => vein.pos = start_pos /\ vein.dir_idx = start_dir_idx)

C18_SixteenSlots ==
  (inv.pc = "done" /\ inv.returned # Null)
  => LET out == inv.returned[1]
     IN /\ DOMAIN out = 1..16
        /\ turtles.inventory # Null
        /\ DOMAIN turtles.inventory[1] = {ToString(k) : k \in 1..16}
        /\ \A i \in DOMAIN inv.raw.items :
             inv.raw.items[i].json = "null" => (i \in DOMAIN out => out[i] = Null)
        /\ \A slot \in DOMAIN out :
             out[slot] # Null
             => /\ DOMAIN out[slot][1] = {"slot", "name", "displayName", "count"} \cup InventoryTags
                /\ out[slot][1]["slot"] = slot
                /\ inv.raw.items[slot].json = "object"
                /\ \A tag \in InventoryTags : out[slot][1][tag] \in BOOLEAN
                /\ turtles.inventory[1][ToString(slot)] = out[slot]

\* C19: when the first frame of a connection does not arrive in time, is
\* not decodable or is not an object with type "hello" and an integer
\* computer_id, the websocket is closed with code 1002, and no turtle is
\* registered, no connection status is written, no inbox or task is started
\* and no other connection is touched.
C19_HandshakeReject ==
  [][\A h \in Hellos :
       (/\ Connect(h) \/ HelloReject(h)
        /\ ~(h.recv /\ h.json = "object" /\ h.type = "hello" /\ h.computer_id = "int"))
       => /\ resp' = [op |-> "close", val |-> 1002]
          /\ UNCHANGED liveVars]_vars

\* C20: a POST /execute whose routine is not in the registry, or whose
\* turtle is not registered or not alive, answers 404 and leaves
\* running_tasks, assignments and every task as they were; a routine that
\* is running gets no cancel request.
C20_StartNotFound ==
  [][\A body \in Bodies, lost \in BOOLEAN :
       (/\ execute_routine(body, lost) \/ execute_routine_not_found(body)
        /\ body.routine \notin routine_registry \/ ~turtle_connected)
       => /\ resp' = [op |-> "http", val |-> 404]
          /\ UNCHANGED <<running_tasks, assignments, cancelReq, fut, pc, published>>
          /\ UNCHANGED liveVars]_vars

\* A start request has just been answered 404 while a routine that was
\* started earlier is still running, not cancelled, with its assignment.
C20_Witness ==
  /\ resp = [op |-> "http", val |-> 404]
  /\ running_tasks # 0
  /\ ~Done(running_tasks)
  /\ ~cancelReq[running_tasks]
  /\ assignments.status = "running"

\* C21: a routine task that POST /abort cancelled while it was suspended
\* (waiting for the session or for a command reply) takes no further step
\* of its own: its next step is its end as a cancelled task, after which
\* its request is no longer in the pending map, the session lock it held
\* is free and routine_aborted is recorded for it.
C21_CancelAtSuspensionPoint ==
  [][\A r \in abortTrue :
       (pc[r] \in {"waitlock", "await"} /\ pc'[r] # pc[r])
       => /\ pc'[r] = "done"
          /\ req[r] \notin pending'[tconn[r]]
          /\ pc[r] = "await" => ~locked'[tconn[r]]
          /\ Terminal(r)' = <<"aborted">>]_vars

\* C22: POST /continue answers 404 and starts nothing when no assignment is
\* recorded for the turtle; otherwise it does what a start does, with the
\* routine name and the config of the recorded assignment, whatever its
\* status: where the start is accepted the new assignment and the new task
\* carry exactly that name and that config.
C22_ContinueLastAssignment ==
  [][continue_routine =>
       IF app.assignments = Null
       THEN resp' = [op |-> "http", val |-> 404] /\ app' = app
       ELSE resp'.val = 200 =>
            LET last == app.assignments[1]
                task == app'.tasks[Len(app'.tasks)] IN
            /\ Len(app'.tasks) = Len(app.tasks) + 1
            /\ app'.assignments[1] =
                 [routine |-> last.routine, status |-> "running", config |-> last.config]
            /\ task.routine = last.routine
            /\ task.config = last.config]_vars

\* C23: every accepted connection has exactly one state-detection task, and
\* a detection task that has a command in flight is inside the session of
\* its turtle, whose lock is held.
C23_OneDetectionPerConnection ==
  \A c \in Conns :
     sock[c] # "none"
     => /\ Cardinality({t \in Detects : tconn[t] = c}) = 1
        /\ \A t \in Detects :
              (tconn[t] = c /\ req[t] \in pending[c])
              => (t \in Holders(c) /\ locked[c])

\* C24: for a turtle id that had no row when it connected, the stored
\* coords are absent as long as no GPS query of the detection has returned
\* a valid triple, up to and including the end of the detection.
C24_CoordsAbsentUntilGps ==
  (det.pc # "idle" /\ det.new /\ ~det.gps) => get_state.coords = Null

C26_ProbePositionNeutral ==
  (det.pc = "done" /\ det.fwd # "none")
  => (det.pos = det.c0 /\ get_state.coords = det.c0)

\* C27: a connection of the id was superseded while it was open and has
\* since closed, its handler having run its finally block; as long as the
\* newest connection is open, the connected-turtles map holds the newest
\* connection and the stored connection_status is "connected".
C27_ReconnectKeepsRegistration ==
  \A c \in superseded, d \in Conns \ FreeConns :
     (/\ \A e \in Conns \ FreeConns : e <= d
      /\ c # d
      /\ sock[d] = "open"
      /\ handler[c] \in {"cleanup", "done"})
     => (clients = d /\ connection_status = "connected")

\* C28: the disconnect handling of a superseded connection leaves a routine
\* that runs on another connection alone: it requests no cancellation of
\* its task and does not touch the status of its assignment.
C28_SupersededCloseSparesRoutine ==
  [][\A c \in superseded, lost \in BOOLEAN :
       (/\ HandlerCleanup(c, lost)
        /\ running_tasks # 0
        /\ tconn[running_tasks] # c)
       => UNCHANGED <<cancelReq, fut, assignments>>]_vars

\* C29: whenever a routine sends a command on a turtle, every routine
\* started earlier on that turtle is over: its task has ended, or its
\* cancellation is pending while it has not taken its first step or still
\* waits for the session lock, so that its next step ends it.  This holds
\* also when the earlier task was only cancelled and not awaited by the
\* start, and when the cancellation was lost and the earlier routine ran
\* to its end.  A routine that is over sends nothing and stays over, so no
\* command of the earlier routine follows the first command of the later
\* one.
C29_NoInterleavedCommands ==
  [][LET Over(a) ==
           Done(a) \/ (cancelReq[a] /\ pc[a] \in {"created", "waitlock"})
         OverNext(a) ==
           Done(a)' \/ (cancelReq'[a] /\ pc'[a] \in {"created", "waitlock"})
     IN /\ \A a \in Runs, b \in Runs :
             (a < b /\ tconn[a] = tconn[b] /\ SendFrame(b)) => Over(a)
        /\ \A a \in Runs : Over(a) => (~SendFrame(a) /\ OverNext(a))]_vars

\* The second routine has a command in flight after its start pre-empted
\* the first one, which ended aborted without an abort call or a disconnect.
C29_Witness ==
  /\ pc[2] = "await"
  /\ req[2] \in pending[tconn[2]]
  /\ tconn[1] = tconn[2]
  /\ Terminal(1) = <<"aborted">>
  /\ 1 \notin abortTrue
  /\ handler[tconn[1]] = "waiting"


\* C30: in every reachable state the pending map of a turtle holds at most
\* one request, and it is empty whenever the turtle is not alive or no
\* task is inside a session on it; and the alive flag of a Turtle object,
\* once false, is never true again while the object exists (a slot gets a
\* new object, alive from construction, only at a connect).
C30_PendingAndAlive ==
  /\ [](\A c \in Conns :
          /\ Cardinality(pending[c]) <= 1
          /\ (~alive[c] \/ Holders(c) = {}) => pending[c] = {})
  /\ [][\A c \in Conns : (sock[c] # "none" /\ ~alive[c]) => ~alive'[c]]_vars

\* A task is still suspended in its session on a turtle whose inbox has
\* ended: the request it registered was failed and removed from the map.
C30_Witness ==
  \E t \in Runs :
    /\ pc[t] = "await"
    /\ sock[tconn[t]] # "none"
    /\ ~alive[tconn[t]]
    /\ fut[req[t]] = "exception"
    /\ pending[tconn[t]] = {}

\* C31: a primitive whose _send reported a failure (reply with ok=false,
\* timeout, disconnected turtle) returns to the routine, and what it
\* returns is False, None, (False, None) or an inventory of empty slots;
\* it never raises.
C31_FailureNeverRaises ==
  (prim.pc = "done" /\ prim.resp \in Failures) =>
    /\ prim.out.kind = "return"
    /\ \/ ~truthy(prim.out.val)
       \/ prim.out.val = PyTuple(<<PyBool(FALSE), PyNone>>)
       \/ /\ prim.name = "get_inventory_details"
          /\ prim.out.val = PyMap([slot \in 1..NumSlots |-> Null])

\* C32: a forward, back, up, down, turn_left or turn_right whose command
\* did not succeed (failed reply, timeout, disconnect, value false, value
\* [false, reason]) leaves the stored row as it was and schedules no
\* state_updated; and a movement whose reply carries a boolean returns
\* that boolean, one whose reply carries a non-empty sequence returns its
\* first element as a boolean.
C32_FailedMoveChangesNothing ==
  [][LET NotSucceeded(r) ==
           \/ r \in Failures
           \/ /\ "value" \in DOMAIN r
              /\ r.value \in {PyBool(FALSE),
                              PyList(<<PyBool(FALSE), PyStr("Movement obstructed")>>)}
         Moves == {"forward", "back", "up", "down"}
         Turns == {"turn_left", "turn_right"}
     IN (prim.pc = "ready" /\ prim'.pc = "done") =>
          /\ (prim'.name \in Moves \cup Turns /\ NotSucceeded(prim'.resp)) =>
               UNCHANGED <<turtles, connection_status, writes, notifyQ>>
          /\ (prim'.name \in Moves /\ prim'.resp \in {ReplyOk(v) : v \in Values}) =>
               /\ prim'.resp.value.type = "bool" =>
                    prim'.out = Return(prim'.resp.value)
               /\ (prim'.resp.value.type = "list" /\ Len(prim'.resp.value.v) >= 1) =>
                    prim'.out = Return(PyBool(truthy(prim'.resp.value.v[1])))]_vars

\* C33 as stated: a successful back with stored heading h in 0..3 and a
\* stored position moves the stored position one block against h, a
\* successful up or down changes only y, by +1 or -1, and each lowers a
\* known stored fuel level by exactly 1; none of them changes the stored
\* heading, so that forward then back, and up then down, give back the
\* position with the fuel level lower by 2.
C33_BackUpDownBurnExactlyOne ==
  [][LET c == get_state.coords
         f == get_state.fuel_level
         d == dir_vecs[get_state.heading[1] + 1]
         Burnt == f # Null => get_state'.fuel_level = <<f[1] - 1>>
     IN /\ (/\ call'.name = "back" /\ call'.ok /\ c # Null
            /\ get_state.heading \in {<<0>>, <<1>>, <<2>>, <<3>>})
           => /\ get_state'.coords = <<c[1] - d[1], c[2] - d[2], c[3] - d[3]>>
              /\ Burnt
        /\ (call'.name = "up" /\ call'.ok /\ c # Null)
           => get_state'.coords = <<c[1], c[2] + 1, c[3]>> /\ Burnt
        /\ (call'.name = "down" /\ call'.ok /\ c # Null)
           => get_state'.coords = <<c[1], c[2] - 1, c[3]>> /\ Burnt
        /\ call'.name \in {"forward", "back", "up", "down"}
           => get_state'.heading = get_state.heading]_vars

\* C33, amended: the position moves as stated and the heading stays; a
\* known stored fuel level is lowered by 1 when it is positive and stays 0
\* when it is 0, an unknown one stays unknown.  So forward then back, and
\* up then down, give back the position, with a known fuel level f lower
\* by 2 only if f >= 2.
C33_BackUpDownBurnOneDownToZero ==
  [][LET c == get_state.coords
         f == get_state.fuel_level
         d == dir_vecs[get_state.heading[1] + 1]
         Burnt == get_state'.fuel_level =
                    IF f = Null THEN Null
                    ELSE IF f[1] > 0 THEN <<f[1] - 1>> ELSE <<0>>
     IN /\ (/\ call'.name = "back" /\ call'.ok /\ c # Null
            /\ get_state.heading \in {<<0>>, <<1>>, <<2>>, <<3>>})
           => /\ get_state'.coords = <<c[1] - d[1], c[2] - d[2], c[3] - d[3]>>
              /\ Burnt
        /\ (call'.name = "up" /\ call'.ok /\ c # Null)
           => get_state'.coords = <<c[1], c[2] + 1, c[3]>> /\ Burnt
        /\ (call'.name = "down" /\ call'.ok /\ c # Null)
           => get_state'.coords = <<c[1], c[2] - 1, c[3]>> /\ Burnt
        /\ call'.name \in {"forward", "back", "up", "down"}
           => get_state'.heading = get_state.heading]_vars

\* The second of two successful moves was a back along heading 2, which
\* found the stored fuel level at 0 and left it there.
C33_Witness ==
  /\ call.name = "back" /\ call.ok
  /\ writes = 2
  /\ turtles.heading = <<2>>
  /\ turtles.fuel_level = <<0>>
  /\ turtles.x = <<0>>

\* C34: publish never raises to its caller; when a publish has returned,
\* every websocket of its snapshot whose send raised or ran into the
\* deadline is out of event_subscribers, and every other websocket of the
\* snapshot has received the event; this also when another publish has
\* already removed the same websocket.
C34_EvictionIsLocal ==
  /\ ~bus.raised
  /\ \A k \in DOMAIN bus.tasks :
       LET t == bus.tasks[k]
           Dead == {t.dead[j] : j \in 1..Len(t.dead)}
       IN t.pc = "done" =>
            /\ Dead \cap bus.subs = {}
            /\ \A j \in 1..Len(t.snap) :
                 t.snap[j] \notin Dead =>
                   \E n \in 1..Len(bus.recv[t.snap[j]]) : bus.recv[t.snap[j]][n] = t.ev

\* Two publishes have returned that both found websocket 1 dead, the
\* second after the first had removed it, and websocket 2 got both events.
C34_Witness ==
  /\ \E k1, k2 \in DOMAIN bus.tasks :
       /\ k1 < k2
       /\ bus.tasks[k1].pc = "done" /\ bus.tasks[k2].pc = "done"
       /\ bus.tasks[k1].dead = <<1>> /\ bus.tasks[k2].dead = <<1>>
       /\ bus.tasks[k1].snap = <<1, 2>> /\ bus.tasks[k2].snap = <<1, 2>>
       /\ Len(bus.recv[2]) = 2
       /\ 1 \notin bus.closed

\* C35: a subscriber that has received routine_started and the terminal
\* event of the run has received routine_started first.
C35_StartedBeforeTerminal ==
  \A w \in Sockets :
    \A m, n \in 1..Len(bus.recv[w]) :
      (bus.recv[w][m] = "routine_started" /\ bus.recv[w][n] \in TerminalEvents)
        => m < n

\* The cells of S that a walk over cells of S reaches from the cells of F.
RECURSIVE Flood(_, _)
Flood(F, S) ==
  LET G == F \cup {c \in S : \E f \in F, i \in 1..Len(neighbors) : c = add_vec(f, neighbors[i])}
  IN IF G = F THEN F ELSE Flood(G, S)

\* The ore cells 6-connected, through ore cells, to a neighbour of start_pos.
OreVein(ore) ==
  Flood({c \in ore : \E i \in 1..Len(neighbors) : c = add_vec(start_pos, neighbors[i])}, ore)

\* C36: when the turtle carries a tool (every dig and so every move of the
\* call succeeds) and mine_ore_vein returns with actions below max_actions,
\* mined is start_pos plus the whole ore vein connected to the six
\* neighbours of start_pos, the cells dug are exactly the cells of that
\* vein, and no cell that was not ore at the call has been dug.
C36_DigsExactlyTheVein ==
  (vein # NotCalled /\ vein.pc = "done" /\ vein.tool /\ vein.actions < vein.max_actions)
    => /\ vein.mined = {start_pos} \cup OreVein(vein.ore0)
       /\ vein.air \ {start_pos} = OreVein(vein.ore0)
       /\ vein.air \ {start_pos} \subseteq vein.ore0
       /\ vein.digs = Cardinality(OreVein(vein.ore0))

\* A vein of four cells around a corner, with an ore cell next to it that
\* the vein does not reach, has been dug and the call has returned.
C36_Witness ==
  /\ vein # NotCalled /\ vein.pc = "done" /\ vein.tool
  /\ vein.actions < vein.max_actions
  /\ vein.ore0 = {<<1, 0, 0>>, <<2, 0, 0>>, <<1, 1, 0>>, <<0, 1, 0>>}
  /\ vein.mined = {start_pos} \cup vein.ore0
  /\ vein.digs = 4

\* The number of steps of a shortest walk over the cells of S from a cell of
\* F (k steps away from the start of the walk) to goal; -1 when no walk
\* over S reaches goal.
RECURSIVE WalkLen(_, _, _, _)
WalkLen(F, S, goal, k) ==
  LET G == F \cup {c \in S : \E f \in F, i \in 1..Len(neighbors) : c = add_vec(f, neighbors[i])}
  IN IF goal \in F THEN k ELSE IF G = F THEN -1 ELSE WalkLen(G, S, goal, k + 1)

\* The mined cells next to frontier cell t.
MinedBeside(t) ==
  {a \in vein.mined : \E i \in 1..Len(neighbors) : t = add_vec(a, neighbors[i])}

\* C37: when an iteration of mine_ore_vein picks a target, the target is a
\* frontier cell, the walk planned for it starts at pos, stays inside mined,
\* goes from cell to 6-connected cell, ends at a mined cell next to the
\* target and is as short as any walk over mined to that cell; no frontier
\* cell has a mined neighbour that is nearer; of the mined neighbours of the
\* target the first tried among the nearest is taken; each successful step
\* of the walk goes to the next cell of the plan; and the loop is left
\* without a target only when the frontier is empty, the budget is used up
\* or no frontier cell can be reached.
C37_NearestFrontierFirst ==
  [][LET W == <<vein.pos>> \o vein'.path
         D(a) == WalkLen({vein.pos}, vein.mined, a, 0)
     IN /\ (vein.pc = "loop" /\ vein'.pc = "path")
             => /\ vein'.target \in vein.frontier
                /\ \A j \in 1..Len(W) : W[j] \in vein.mined
                /\ \A j \in 1..(Len(W) - 1) :
                     \E i \in 1..Len(neighbors) : W[j + 1] = add_vec(W[j], neighbors[i])
                /\ add_vec(W[Len(W)], vein'.delta) = vein'.target
                /\ Len(W) - 1 = D(W[Len(W)])
                /\ \A t \in vein.frontier : \A a \in MinedBeside(t) :
                     D(a) >= 0 => Len(W) - 1 <= D(a)
                /\ \A k \in 1..Len(cands) :
                     LET a == sub_vec(vein'.target, cands[k].dv)
                     IN (a \in vein.mined /\ D(a) = Len(W) - 1 /\ cands[k].dv # vein'.delta)
                          => \E j \in 1..(k - 1) : cands[j].dv = vein'.delta
        /\ (vein.pc = "path" /\ vein'.pc = "path" /\ vein'.pos # vein.pos /\ vein.path # <<>>)
             => vein'.pos = Head(vein.path) /\ vein'.pos \in vein.mined
        /\ (vein.pc = "loop" /\ vein'.pc = "return")
             => \/ vein.frontier = {}
                \/ vein.actions >= vein.max_actions
                \/ \A t \in vein.frontier : \A a \in MinedBeside(t) : D(a) < 0]_vars

\* A target has been picked and a walk over mined leads to it, while a
\* frontier cell whose mined neighbours are all farther away is left for
\* later.
C37_Witness ==
  /\ vein # NotCalled /\ vein.pc = "path"
  /\ Len(vein.path) >= 1
  /\ vein.actions + Len(vein.path) < vein.max_actions
  /\ \E t \in vein.frontier \ {vein.target} :
       \A a \in MinedBeside(t) : WalkLen({vein.pos}, vein.mined, a, 0) > Len(vein.path)

C39_DumpIsNeutral ==
  dump.pc = "done"
    => /\ dump.out.kind = "return"
       /\ dump.lefts = dump.rights
       /\ dump.ups = dump.downs

\* C40: every chute anchor that dig_calculation returns, and so every chute
\* the loop digs, lies in the rectangle of the configuration:
\* start_x <= x <= start_x + width - 1 and start_z <= z <= start_z + height - 1.
C40_AnchorsInsideArea ==
  calc.pc \in {"chutes", "done"}
    => \A k \in 1..Len(calc.fixed_points) :
         LET p == calc.fixed_points[k].point
         IN /\ calc.bottom_left_corner[1] <= p[1]
            /\ p[1] <= calc.bottom_left_corner[1] + calc.width - 1
            /\ calc.bottom_left_corner[2] <= p[2]
            /\ p[2] <= calc.bottom_left_corner[2] + calc.height - 1

====
